---------------------------- MODULE Spec2Model ----------------------------
(***************************************************************************)
(* Heap-allocator subsystem of the myos kernel: the first-fit free-list     *)
(* allocator (src/src/allocator/linked_list.rs) and the fixed-size-block    *)
(* allocator with its fallback arena                                        *)
(* (src/src/allocator/fixed_size_block.rs).                                 *)
(*                                                                          *)
(* Addresses and sizes are machine words (usize).  The word is WordBits     *)
(* wide instead of 64 so that the model checker can represent it; every     *)
(* arithmetic operation wraps or is checked exactly where the source wraps  *)
(* or checks.                                                               *)
(***************************************************************************)
EXTENDS Integers, Sequences, FiniteSets, Bags, TLC

(***************************************************************************)
(* Bounds of the model.                                                     *)
(***************************************************************************)
WordBits == 20
MaxBlocks == 3
MaxTrace == 3
MaxCycles == 3

WORD == 2 ^ WordBits
USIZE_MAX == WORD - 1

(***************************************************************************)
(* Program constants.                                                       *)
(***************************************************************************)
\* size_of::<Node>() and align_of::<Node>() of linked_list.rs: a usize and an
\* Option<&'static mut Node>.
NodeSize == 16
NodeAlign == 8
\* size_of::<Node>() and align_of::<Node>() of fixed_size_block.rs: one
\* Option<&'static mut Node>.
BlockNodeSize == 8
BlockNodeAlign == 8
\* The kernel heap (allocator/mod.rs).  HEAP_START is the page-aligned start
\* of the window, scaled into the model's word.
HEAP_START == 278528
HEAP_SIZE == 102400
\* The buffer length the unit tests use as the heap size.
TestHeapSize == 256

NULL == 0

BLOCK_LAYOUTS ==
    << [size |-> 8,    align |-> 8],
       [size |-> 16,   align |-> 16],
       [size |-> 32,   align |-> 32],
       [size |-> 64,   align |-> 64],
       [size |-> 128,  align |-> 128],
       [size |-> 256,  align |-> 256],
       [size |-> 512,  align |-> 512],
       [size |-> 1024, align |-> 1024],
       [size |-> 2048, align |-> 2048] >>

FREE_LISTS_COUNT == Len(BLOCK_LAYOUTS)

(***************************************************************************)
(* Machine-word arithmetic.                                                 *)
(***************************************************************************)
wrapping_add(a, b) == (a + b) % WORD
wrapping_sub(a, b) == (a - b + WORD) % WORD

\* usize::checked_add: None (ok = FALSE) on overflow.
checked_add(a, b) ==
    IF a + b > USIZE_MAX THEN [ok |-> FALSE, val |-> 0]
                         ELSE [ok |-> TRUE,  val |-> a + b]

RECURSIVE BitAnd(_, _)
BitAnd(a, b) ==
    IF a = 0 \/ b = 0 THEN 0
    ELSE (a % 2) * (b % 2) + 2 * BitAnd(a \div 2, b \div 2)

BitNot(a) == USIZE_MAX - a

Max(a, b) == IF a >= b THEN a ELSE b

\* Mutant of align_up: the address is rounded down.
align_up_down(addr, align) == BitAnd(addr, BitNot(wrapping_sub(align, 1)))

\* Mutant of align_up: the address is returned as it is.
align_up_unaligned(addr, align) == addr

\* align_up of allocator/mod.rs: (addr + align - 1) & !(align - 1).
align_up(addr, align) ==
    BitAnd(wrapping_sub(wrapping_add(addr, align), 1),
           BitNot(wrapping_sub(align, 1)))

(***************************************************************************)
(* core::alloc::Layout as the allocator uses it.                            *)
(***************************************************************************)
IsPowerOfTwo(n) == \E k \in 0..(WordBits - 1) : n = 2 ^ k

\* Layout::from_size_align: align is a power of two and size rounded up to
\* align does not overflow.
LayoutOk(size, align) ==
    /\ IsPowerOfTwo(align)
    /\ size <= USIZE_MAX - (align - 1)

\* Layout::pad_to_align().size(): size rounded up to a multiple of align.
padded_size(size, align) == ((size + align - 1) \div align) * align

(***************************************************************************)
(* Free-List allocator (linked_list.rs).  The list head.next -> ... is a    *)
(* sequence of nodes [addr, size]; a node lives at the start of the free    *)
(* region it describes, so its start_addr is addr.                          *)
(***************************************************************************)
start_addr(node) == node.addr
end_addr(node) == start_addr(node) + node.size

\* LinkedListAllocator::adjust_layout.  ok = FALSE is the panic of
\* expect("adjusting alignment failed"): align_to returns Err when the size
\* rounded up to the new alignment overflows.
adjust_layout(size, align) ==
    IF ~LayoutOk(size, Max(align, NodeAlign))
    THEN [ok |-> FALSE, size |-> 0, align |-> 0]
    ELSE [ok |-> TRUE,
          size |-> Max(padded_size(size, Max(align, NodeAlign)), NodeSize),
          align |-> Max(align, NodeAlign)]

\* Mutant of region_fits: the end of the region is not checked.
region_fits_unchecked(region, alloc_start, alloc_end) ==
    IF ~alloc_end.ok
    THEN [ok |-> FALSE, val |-> 0, err |-> "AddressOverflow"]
    ELSE IF end_addr(region) - alloc_end.val > 0
            /\ end_addr(region) - alloc_end.val < NodeSize
    THEN [ok |-> FALSE, val |-> 0, err |-> "ExcessCannotFitANode"]
    ELSE [ok |-> TRUE, val |-> alloc_start, err |-> "none"]

\* Mutant of region_fits: a node for which alloc_start + size overflows is
\* taken as fitting.
region_fits_overflow(region, alloc_start, alloc_end) ==
    IF ~alloc_end.ok
    THEN [ok |-> TRUE, val |-> alloc_start, err |-> "none"]
    ELSE IF ~(alloc_end.val <= end_addr(region))
    THEN [ok |-> FALSE, val |-> 0, err |-> "RegionNotBigEnough"]
    ELSE IF end_addr(region) - alloc_end.val > 0
            /\ end_addr(region) - alloc_end.val < NodeSize
    THEN [ok |-> FALSE, val |-> 0, err |-> "ExcessCannotFitANode"]
    ELSE [ok |-> TRUE, val |-> alloc_start, err |-> "none"]

\* alloc_from_region, the two and_then closures: alloc_end is the result of
\* checked_add.
region_fits(region, alloc_start, alloc_end) ==
    IF ~alloc_end.ok
    THEN [ok |-> FALSE, val |-> 0, err |-> "AddressOverflow"]
    ELSE IF ~(alloc_end.val <= end_addr(region))
    THEN [ok |-> FALSE, val |-> 0, err |-> "RegionNotBigEnough"]
    ELSE IF end_addr(region) - alloc_end.val > 0
            /\ end_addr(region) - alloc_end.val < NodeSize
    THEN [ok |-> FALSE, val |-> 0, err |-> "ExcessCannotFitANode"]
    ELSE [ok |-> TRUE, val |-> alloc_start, err |-> "none"]

alloc_at(region, alloc_start, size) ==
    region_fits(region, alloc_start, checked_add(alloc_start, size))

\* LinkedListAllocator::alloc_from_region: Ok(alloc_start) or Err(_).
alloc_from_region(region, size, align) ==
    alloc_at(region, align_up(start_addr(region), align), size)

\* Mutant of find_from: the last node that fits is taken.
find_from_last(list, i, size, align) ==
    IF \A j \in i..Len(list) : ~alloc_from_region(list[j], size, align).ok
    THEN [found |-> FALSE, index |-> 0, alloc_start |-> 0]
    ELSE [found |-> TRUE,
          index |-> CHOOSE j \in i..Len(list) :
                       /\ alloc_from_region(list[j], size, align).ok
                       /\ \A n \in (j + 1)..Len(list) :
                             ~alloc_from_region(list[n], size, align).ok,
          alloc_start |->
              alloc_from_region(
                  list[CHOOSE j \in i..Len(list) :
                          /\ alloc_from_region(list[j], size, align).ok
                          /\ \A n \in (j + 1)..Len(list) :
                                ~alloc_from_region(list[n], size, align).ok],
                  size, align).val]

\* The while-let loop of find_region, from position i on: the first node for
\* which alloc_from_region is Ok.
RECURSIVE find_from(_, _, _, _)
find_from(list, i, size, align) ==
    IF i > Len(list)
    THEN [found |-> FALSE, index |-> 0, alloc_start |-> 0]
    ELSE IF alloc_from_region(list[i], size, align).ok
    THEN [found |-> TRUE, index |-> i,
          alloc_start |-> alloc_from_region(list[i], size, align).val]
    ELSE find_from(list, i + 1, size, align)

\* find_region, the Ok arm: the found node is unlinked from the list.
take_region(list, f) ==
    IF ~f.found
    THEN [found |-> FALSE, region |-> [addr |-> 0, size |-> 0],
          alloc_start |-> 0, list |-> list]
    ELSE [found |-> TRUE, region |-> list[f.index],
          alloc_start |-> f.alloc_start,
          list |-> SubSeq(list, 1, f.index - 1)
                   \o SubSeq(list, f.index + 1, Len(list))]

\* LinkedListAllocator::find_region.
find_region(list, size, align) ==
    take_region(list, find_from(list, 1, size, align))

\* Mutant of add_free_region: the node records a node size too much.
add_free_region_oversized(list, addr, size) ==
    IF ~(size >= NodeSize) \/ ~(align_up(addr, NodeAlign) = addr)
    THEN [panic |-> "add_free_region assertion", list |-> list]
    ELSE [panic |-> "none",
          list |-> <<[addr |-> addr, size |-> size + NodeSize]>> \o list]

\* LinkedListAllocator::add_free_region: the two assertions, then the node
\* is written at addr and becomes the new head.  A failed assertion is a
\* panic; the list is then left as it was.
add_free_region(list, addr, size) ==
    IF ~(size >= NodeSize) \/ ~(align_up(addr, NodeAlign) = addr)
    THEN [panic |-> "add_free_region assertion", list |-> list]
    ELSE [panic |-> "none",
          list |-> <<[addr |-> addr, size |-> size]>> \o list]

\* Mutant of split_region: the remainder is re-inserted from the start of
\* the allocation instead of its end.
split_region_from_start(fr, alloc_end) ==
    IF ~alloc_end.ok
    THEN [panic |-> "overflow", ptr |-> NULL, list |-> fr.list]
    ELSE IF end_addr(fr.region) - alloc_end.val > 0
    THEN add_free_region(fr.list, fr.alloc_start,
                         end_addr(fr.region) - fr.alloc_start)
         @@ [ptr |-> fr.alloc_start]
    ELSE [panic |-> "none", ptr |-> fr.alloc_start, list |-> fr.list]

\* Mutant of split_region: the remainder is never put back.
split_region_drop(fr, alloc_end) ==
    IF ~alloc_end.ok
    THEN [panic |-> "overflow", ptr |-> NULL, list |-> fr.list]
    ELSE [panic |-> "none", ptr |-> fr.alloc_start, list |-> fr.list]

\* The closure alloc passes to map: fr is what find_region returned,
\* alloc_end the result of checked_add.
split_region(fr, alloc_end) ==
    IF ~alloc_end.ok
    THEN [panic |-> "overflow", ptr |-> NULL, list |-> fr.list]
    ELSE IF end_addr(fr.region) - alloc_end.val > 0
    THEN add_free_region(fr.list, alloc_end.val,
                         end_addr(fr.region) - alloc_end.val)
         @@ [ptr |-> fr.alloc_start]
    ELSE [panic |-> "none", ptr |-> fr.alloc_start, list |-> fr.list]

\* A call that panicked returns nothing.
returned(r) == IF r.panic = "none" THEN r ELSE [r EXCEPT !.ptr = NULL]

\* Mutant of alloc_found: the bytes in front of an aligned block go back to
\* the list when they can hold a node.
alloc_found_keep_front(fr, size) ==
    IF ~fr.found
    THEN [panic |-> "none", ptr |-> NULL, list |-> fr.list]
    ELSE IF fr.alloc_start - start_addr(fr.region) >= NodeSize
    THEN returned(split_region(
             [fr EXCEPT !.list =
                 <<[addr |-> start_addr(fr.region),
                    size |-> fr.alloc_start - start_addr(fr.region)]>>
                 \o fr.list],
             checked_add(fr.alloc_start, size)))
    ELSE returned(split_region(fr, checked_add(fr.alloc_start, size)))

\* The map / unwrap_or of alloc on what find_region returned.
alloc_found(fr, size) ==
    IF ~fr.found
    THEN [panic |-> "none", ptr |-> NULL, list |-> fr.list]
    ELSE returned(split_region(fr, checked_add(fr.alloc_start, size)))

alloc_adjusted(list, adj) ==
    IF ~adj.ok
    THEN [panic |-> "adjusting alignment failed", ptr |-> NULL, list |-> list]
    ELSE alloc_found(find_region(list, adj.size, adj.align), adj.size)

\* GlobalAlloc::alloc for Locked<LinkedListAllocator>.
\* Result: the panic raised ("none" when the call returns), the returned
\* pointer (NULL on failure) and the new list.
ll_alloc(list, lsize, lalign) ==
    alloc_adjusted(list, adjust_layout(lsize, lalign))

\* Mutant of dealloc_adjusted: the freed region is not put back.
dealloc_adjusted_leak(list, ptr, adj) ==
    IF ~adj.ok
    THEN [panic |-> "adjusting alignment failed", list |-> list]
    ELSE [panic |-> "none", list |-> list]

dealloc_adjusted(list, ptr, adj) ==
    IF ~adj.ok
    THEN [panic |-> "adjusting alignment failed", list |-> list]
    ELSE add_free_region(list, ptr, adj.size)

\* Mutant of ll_dealloc: a region freed right behind a free node is merged
\* into that node.
ll_dealloc_merge(list, ptr, lsize, lalign) ==
    IF \E k \in 1..Len(list) : end_addr(list[k]) = ptr
    THEN [panic |-> "none",
          list |-> [k \in 1..Len(list) |->
                      IF end_addr(list[k]) = ptr
                      THEN [list[k] EXCEPT
                              !.size = @ + adjust_layout(lsize, lalign).size]
                      ELSE list[k]]]
    ELSE dealloc_adjusted(list, ptr, adjust_layout(lsize, lalign))

\* Mutant of ll_dealloc: the region is freed with the size of the layout,
\* not with the adjusted size.
ll_dealloc_unadjusted(list, ptr, lsize, lalign) ==
    add_free_region(list, ptr, lsize)

\* GlobalAlloc::dealloc for Locked<LinkedListAllocator>.
ll_dealloc(list, ptr, lsize, lalign) ==
    dealloc_adjusted(list, ptr, adjust_layout(lsize, lalign))

\* LinkedListAllocator::init.
ll_init(list, start, size) == add_free_region(list, start, size)

(***************************************************************************)
(* The fallback arena of the fixed-size-block allocator.  The source holds  *)
(* it as a linked_list_allocator::Heap; the design document defines it as   *)
(* an instance of the Free-List allocator, and it is modelled as one: a     *)
(* record of the capacity given to init and the free list.  Its operations  *)
(* return the new free list with their result.                              *)
(***************************************************************************)
Heap_empty == [size |-> 0, list |-> <<>>]

Heap_init(heap, start, size) == ll_init(heap.list, start, size)

Heap_size(heap) == heap.size

allocate_first_fit(heap, lsize, lalign) == ll_alloc(heap.list, lsize, lalign)

deallocate(heap, ptr, lsize, lalign) == ll_dealloc(heap.list, ptr, lsize, lalign)

(***************************************************************************)
(* Fixed-size-block allocator (fixed_size_block.rs).  free_list_heads[i] is *)
(* the chain of block addresses of class i, head first.  Classes are        *)
(* numbered from 1: index i here is index i - 1 of the source, and 0 is     *)
(* None.  Every operation returns the panic raised, the new class lists     *)
(* (heads) and the new free list of the fallback arena (list).              *)
(***************************************************************************)
\* The position() of free_list_index: the first index of the filtered
\* sequence whose block holds the layout.
position(filtered, lsize, lalign) ==
    IF \A i \in 1..Len(filtered) :
          ~(lsize <= filtered[i].size /\ lalign <= filtered[i].align)
    THEN 0
    ELSE CHOOSE i \in 1..Len(filtered) :
            /\ lsize <= filtered[i].size /\ lalign <= filtered[i].align
            /\ \A j \in 1..(i - 1) :
                  ~(lsize <= filtered[j].size /\ lalign <= filtered[j].align)

\* Mutant of free_list_index: the classes are not filtered by the capacity.
free_list_index_unfiltered(heap, lsize, lalign) ==
    position(BLOCK_LAYOUTS, lsize, lalign)

\* FixedSizeBlockAllocator::free_list_index.
free_list_index(heap, lsize, lalign) ==
    position(SelectSeq(BLOCK_LAYOUTS, LAMBDA block : block.size < Heap_size(heap)),
             lsize, lalign)

\* FixedSizeBlockAllocator::fallback_alloc.
fallback_alloc(heads, heap, lsize, lalign) ==
    allocate_first_fit(heap, lsize, lalign)
    @@ [heads |-> heads, via |-> "fallback", fsize |-> lsize, falign |-> lalign]

\* Mutant of free_list_alloc: when the list of the class is empty a block
\* is taken from the list of a larger class.
free_list_alloc_steal(heads, heap, index) ==
    IF heads[index] # <<>>
    THEN [panic |-> "none", ptr |-> Head(heads[index]),
          heads |-> [heads EXCEPT ![index] = Tail(heads[index])],
          list |-> heap.list, via |-> "class_list", fsize |-> 0, falign |-> 0]
    ELSE IF \E j \in (index + 1)..FREE_LISTS_COUNT : heads[j] # <<>>
    THEN [panic |-> "none",
          ptr |-> Head(heads[CHOOSE j \in (index + 1)..FREE_LISTS_COUNT :
                                heads[j] # <<>>]),
          heads |-> [heads EXCEPT
                       ![CHOOSE j \in (index + 1)..FREE_LISTS_COUNT :
                            heads[j] # <<>>] = Tail(@)],
          list |-> heap.list, via |-> "class_list", fsize |-> 0, falign |-> 0]
    ELSE fallback_alloc(heads, heap, BLOCK_LAYOUTS[index].size,
                        BLOCK_LAYOUTS[index].align)

\* Mutant of free_list_alloc: the block always comes from the fallback.
free_list_alloc_fallback(heads, heap, index) ==
    fallback_alloc(heads, heap, BLOCK_LAYOUTS[index].size,
                   BLOCK_LAYOUTS[index].align)

\* FixedSizeBlockAllocator::free_list_alloc.
free_list_alloc(heads, heap, index) ==
    IF ~(index <= FREE_LISTS_COUNT)
    THEN [panic |-> "index < FREE_LISTS_COUNT", ptr |-> NULL, heads |-> heads,
          list |-> heap.list, via |-> "none", fsize |-> 0, falign |-> 0]
    ELSE IF heads[index] # <<>>
    THEN [panic |-> "none", ptr |-> Head(heads[index]),
          heads |-> [heads EXCEPT ![index] = Tail(heads[index])],
          list |-> heap.list, via |-> "class_list", fsize |-> 0, falign |-> 0]
    ELSE IF ~LayoutOk(BLOCK_LAYOUTS[index].size, BLOCK_LAYOUTS[index].align)
    THEN [panic |-> "unwrap", ptr |-> NULL, heads |-> heads,
          list |-> heap.list, via |-> "none", fsize |-> 0, falign |-> 0]
    ELSE fallback_alloc(heads, heap, BLOCK_LAYOUTS[index].size,
                        BLOCK_LAYOUTS[index].align)

\* Mutant of alloc_indexed: a request no class holds is served from the
\* largest class.
alloc_indexed_largest(heads, heap, lsize, lalign, i) ==
    IF i # 0 THEN free_list_alloc(heads, heap, i)
             ELSE free_list_alloc(heads, heap, FREE_LISTS_COUNT)

alloc_indexed(heads, heap, lsize, lalign, i) ==
    IF i # 0 THEN free_list_alloc(heads, heap, i)
             ELSE fallback_alloc(heads, heap, lsize, lalign)

\* FixedSizeBlockAllocator::alloc.
fsb_alloc(heads, heap, lsize, lalign) ==
    alloc_indexed(heads, heap, lsize, lalign, free_list_index(heap, lsize, lalign))

\* Mutant of dealloc_indexed: every block goes back to the fallback.
dealloc_indexed_fallback(heads, heap, block_ptr, lsize, lalign, index) ==
    deallocate(heap, block_ptr, lsize, lalign)
    @@ [heads |-> heads, via |-> "fallback"]

\* The match of dealloc on the class of the layout.
dealloc_indexed(heads, heap, block_ptr, lsize, lalign, index) ==
    IF index # 0
    THEN IF ~(BlockNodeSize <= BLOCK_LAYOUTS[index].size)
            \/ ~(BlockNodeAlign <= BLOCK_LAYOUTS[index].align)
         THEN [panic |-> "node fits in class assertion", heads |-> heads,
               list |-> heap.list, via |-> "none"]
         ELSE [panic |-> "none",
               heads |-> [heads EXCEPT ![index] = <<block_ptr>> \o heads[index]],
               list |-> heap.list, via |-> "class_list"]
    ELSE deallocate(heap, block_ptr, lsize, lalign)
         @@ [heads |-> heads, via |-> "fallback"]

\* Mutant of fsb_dealloc: the null pointer is not singled out.
fsb_dealloc_unchecked(heads, heap, block_ptr, lsize, lalign) ==
    dealloc_indexed(heads, heap, block_ptr, lsize, lalign,
                    free_list_index(heap, lsize, lalign))

\* FixedSizeBlockAllocator::dealloc.
fsb_dealloc(heads, heap, block_ptr, lsize, lalign) ==
    IF block_ptr = NULL
    THEN [panic |-> "none", heads |-> heads, list |-> heap.list, via |-> "none"]
    ELSE dealloc_indexed(heads, heap, block_ptr, lsize, lalign,
                         free_list_index(heap, lsize, lalign))

\* FixedSizeBlockAllocator::init.
fsb_init(heap, start, size) ==
    Heap_init(heap, start, size) @@ [size |-> size]

(***************************************************************************)
(* State.                                                                   *)
(***************************************************************************)
VARIABLES
    strategy,            \* which allocator is installed
    initialized,         \* init has been called
    heap_start,          \* the heap window given to init
    heap_size,
    head,                \* LinkedListAllocator.head.next: the free list
    free_list_heads,     \* FixedSizeBlockAllocator.free_list_heads
    fallback_allocator,  \* FixedSizeBlockAllocator.fallback_allocator
    live,                \* bag of the allocations returned non-null and
                         \* not yet freed, [ptr, size, align]
    last,                \* the last alloc/dealloc call and its outcome
    trace,               \* the calls made since init, while at most MaxTrace
    panicked,            \* a call has panicked: the kernel halts
    cycles,              \* completed alloc-then-free cycles of a stress run
    lock,                \* Locked.inner: the flag of the spin::Mutex
    pc,                  \* the call each caller is making through Locked,
                         \* and where in it the caller is
    memory_map,          \* BootInfoFrameAllocator.memory_map: the regions of
                         \* the bootloader, [start, end, usable]
    next,                \* BootInfoFrameAllocator.next
    handed,              \* what the calls of allocate_frame returned, in order
    premapped,           \* the pages the page table maps before init_heap
    huge_parent,         \* the pages whose parent entry is a huge page
    missing_tables,      \* the page tables map_to has to create for the heap
    mapped,              \* the mappings map_to installed, in order,
                         \* [page, frame, flags]
    boot,                \* init_heap: where it is (at), the index of the page
                         \* it maps next (i), the frames it has requested,
                         \* its error, and the first failure it met
    bump,                \* the bump allocator: [heap_start, heap_end,
                         \* next_free, allocation_count]
    bump_last,           \* the last call of the bump allocator, with the
                         \* state it found
    au,                  \* the last call of align_up on its own: [called,
                         \* addr, align, panic, result]
    fli                  \* the last call of free_list_index on its own:
                         \* [called, heap_size, size, align, index]

\* The state of the callers that go through the Locked wrapper.
lvars == <<lock, pc>>

\* The frame allocator, the page table and init_heap.
bvars == <<memory_map, next, handed, premapped, huge_parent, missing_tables,
           mapped, boot>>

\* The bump allocator.
uvars == <<bump, bump_last>>

\* The address utility and the class selection called on their own.
avars == <<au, fli>>

\* The state outside the allocator itself.
xvars == <<lvars, bvars, uvars, avars>>

vars == <<strategy, initialized, heap_start, heap_size, head, free_list_heads,
          fallback_allocator, live, last, trace, panicked, cycles, xvars>>

(***************************************************************************)
(* Inputs.                                                                  *)
(***************************************************************************)
\* Layouts requested by the callers, <<size, align>>: the ones the tests use
\* (4/8, 128/8, 150/8, 512/8), one over the largest class, an over-aligned
\* one, one that leaves a remainder, and the largest layout of alignment 1.
Layouts ==
    { <<4, 8>>, <<24, 8>>, <<8, 32>>, <<128, 8>>, <<150, 8>>, <<512, 8>>,
      <<4096, 8>>, <<USIZE_MAX - 3, 1>> }

\* A small boxed value.
SmallLayouts == { l \in Layouts : l[1] <= 8 }

\* Heap windows given to init, <<start, size>>: a test buffer at every
\* multiple of the node alignment past a 128-byte boundary, and the kernel
\* heap.
HeapWindows ==
    { <<4096 + NodeAlign * k, TestHeapSize>> : k \in 0..15 }
    \cup { <<HEAP_START, HEAP_SIZE>> }

NoCall == [op |-> "none", size |-> 0, align |-> 0, ptr |-> NULL,
           via |-> "none", fsize |-> 0, falign |-> 0, panic |-> "none"]

\* The trace once more than MaxTrace calls have been made.
ManyCalls == [NoCall EXCEPT !.op = "many"]

TraceAfter(call) ==
    IF trace # <<ManyCalls>> /\ Len(trace) < MaxTrace
    THEN Append(trace, call)
    ELSE <<ManyCalls>>

Min(a, b) == IF a <= b THEN a ELSE b

RECURSIVE SumLen(_, _)
SumLen(heads, i) == IF i = 0 THEN 0 ELSE Len(heads[i]) + SumLen(heads, i - 1)

\* The number of pieces the heap is carved into: the free nodes the
\* allocator holds and the live allocations.  The model explores the states
\* in which there are at most MaxBlocks of them.
Blocks(list, heads, heap, allocs) ==
    Len(list) + SumLen(heads, FREE_LISTS_COUNT) + Len(heap.list)
    + BagCardinality(allocs)

\* The stress run of tests/heap_allocation.rs: from init on, nothing but
\* "box a small value, drop it".
CyclesAfterAlloc(l) ==
    IF cycles >= 0 /\ live = EmptyBag /\ l \in SmallLayouts THEN cycles ELSE -1

CyclesAfterDealloc ==
    IF cycles >= 0 THEN Min(cycles + 1, MaxCycles) ELSE -1

(***************************************************************************)
(* The callers of the global allocator.  "kernel" is the normal control     *)
(* flow of the core and "irq" an interrupt handler that preempts it on the  *)
(* same core; "cpu1" is a caller that runs concurrently with both.          *)
(***************************************************************************)
Callers == {"kernel", "irq", "cpu1"}

\* No call in progress.
Idle == [at |-> "idle", op |-> "none", size |-> 0, align |-> 0, ptr |-> NULL]

\* Locked::new: the mutex is free and nobody is calling.
LockIdle ==
    /\ lock = FALSE
    /\ pc = [c \in Callers |-> Idle]

\* init_heap is not running: no memory map, no page table.
BootOff == [at |-> "off", i |-> 0, frames |-> 0, error |-> "none",
            failed |-> "none"]

BootIdle ==
    /\ memory_map = <<>>
    /\ next = 0
    /\ handed = <<>>
    /\ premapped = {}
    /\ huge_parent = {}
    /\ missing_tables = 0
    /\ mapped = <<>>
    /\ boot = BootOff

\* The bump allocator before init.
BumpEmpty == [heap_start |-> 0, heap_end |-> 0, next_free |-> 0,
              allocation_count |-> 0]

NoBumpCall == [op |-> "none", size |-> 0, align |-> 0, ptr |-> NULL,
               before |-> BumpEmpty]

BumpIdle ==
    /\ bump = BumpEmpty
    /\ bump_last = NoBumpCall

\* align_up has not been called.
NoAlignCall == [called |-> FALSE, addr |-> 0, align |-> 1, panic |-> FALSE,
                result |-> 0]

\* free_list_index has not been called.
NoIndexCall == [called |-> FALSE, heap_size |-> 0, size |-> 0, align |-> 1,
                index |-> 0]

AlignIdle == au = NoAlignCall /\ fli = NoIndexCall

(***************************************************************************)
(* Init: LinkedListAllocator::new() or FixedSizeBlockAllocator::empty().    *)
(***************************************************************************)
Init ==
    /\ strategy \in {"LinkedList", "FixedSizeBlock"}
    /\ initialized = FALSE
    /\ heap_start = 0
    /\ heap_size = 0
    /\ head = <<>>
    /\ free_list_heads = [i \in 1..FREE_LISTS_COUNT |-> <<>>]
    /\ fallback_allocator = Heap_empty
    /\ live = EmptyBag
    /\ last = NoCall
    /\ trace = <<>>
    /\ panicked = FALSE
    /\ cycles = -1
    /\ LockIdle
    /\ BootIdle
    /\ BumpIdle
    /\ AlignIdle

(***************************************************************************)
(* Free-List allocator as the installed allocator.                          *)
(***************************************************************************)
LLInit(w) ==
    /\ strategy = "LinkedList"
    /\ ~initialized
    /\ ~panicked
    /\ \E r \in {ll_init(head, w[1], w[2])} :
       /\ head' = r.list
       /\ panicked' = (r.panic # "none")
    /\ initialized' = TRUE
    /\ heap_start' = w[1]
    /\ heap_size' = w[2]
    /\ trace' = <<>>
    /\ cycles' = 0
    /\ UNCHANGED <<strategy, free_list_heads, fallback_allocator, live, last>>
    /\ UNCHANGED xvars

\* GlobalAlloc::alloc, explored while the heap is in at most n pieces.
LLAllocUpTo(l, n) ==
    /\ strategy = "LinkedList"
    /\ ~panicked
    /\ \E r \in {ll_alloc(head, l[1], l[2])} :
       /\ head' = r.list
       /\ panicked' = (r.panic # "none")
       /\ live' = IF r.ptr # NULL
                  THEN live (+) SetToBag({[ptr |-> r.ptr, size |-> l[1],
                                           align |-> l[2]]})
                  ELSE live
       /\ Blocks(r.list, free_list_heads, fallback_allocator, live') <= n
       /\ last' = [op |-> "alloc", size |-> l[1], align |-> l[2], ptr |-> r.ptr,
                   via |-> "free_list", fsize |-> 0, falign |-> 0,
                   panic |-> r.panic]
    /\ trace' = TraceAfter(last')
    /\ cycles' = CyclesAfterAlloc(l)
    /\ UNCHANGED <<strategy, initialized, heap_start, heap_size, free_list_heads,
                   fallback_allocator>>
    /\ UNCHANGED xvars

LLAlloc(l) == LLAllocUpTo(l, MaxBlocks)

LLDealloc(a) ==
    /\ strategy = "LinkedList"
    /\ ~panicked
    /\ BagIn(a, live)
    /\ \E r \in {ll_dealloc(head, a.ptr, a.size, a.align)} :
       /\ head' = r.list
       /\ panicked' = (r.panic # "none")
       /\ last' = [op |-> "dealloc", size |-> a.size, align |-> a.align,
                   ptr |-> a.ptr, via |-> "free_list", fsize |-> 0, falign |-> 0,
                   panic |-> r.panic]
    /\ live' = live (-) SetToBag({a})
    /\ trace' = TraceAfter(last')
    /\ cycles' = CyclesAfterDealloc
    /\ UNCHANGED <<strategy, initialized, heap_start, heap_size, free_list_heads,
                   fallback_allocator>>
    /\ UNCHANGED xvars

(***************************************************************************)
(* Fixed-size-block allocator as the installed allocator.                   *)
(***************************************************************************)
FSBInit(w) ==
    /\ strategy = "FixedSizeBlock"
    /\ ~initialized
    /\ ~panicked
    /\ \E r \in {fsb_init(fallback_allocator, w[1], w[2])} :
       /\ fallback_allocator' = [size |-> r.size, list |-> r.list]
       /\ panicked' = (r.panic # "none")
    /\ initialized' = TRUE
    /\ heap_start' = w[1]
    /\ heap_size' = w[2]
    /\ trace' = <<>>
    /\ cycles' = 0
    /\ UNCHANGED <<strategy, head, free_list_heads, live, last>>
    /\ UNCHANGED xvars

FSBAlloc(l) ==
    /\ strategy = "FixedSizeBlock"
    /\ ~panicked
    /\ \E r \in {fsb_alloc(free_list_heads, fallback_allocator, l[1], l[2])} :
       /\ free_list_heads' = r.heads
       /\ fallback_allocator' = [fallback_allocator EXCEPT !.list = r.list]
       /\ panicked' = (r.panic # "none")
       /\ live' = IF r.ptr # NULL
                  THEN live (+) SetToBag({[ptr |-> r.ptr, size |-> l[1],
                                           align |-> l[2]]})
                  ELSE live
       /\ Blocks(head, r.heads, fallback_allocator', live') <= MaxBlocks
       /\ last' = [op |-> "alloc", size |-> l[1], align |-> l[2], ptr |-> r.ptr,
                   via |-> r.via, fsize |-> r.fsize, falign |-> r.falign,
                   panic |-> r.panic]
    /\ trace' = TraceAfter(last')
    /\ cycles' = CyclesAfterAlloc(l)
    /\ UNCHANGED <<strategy, initialized, heap_start, heap_size, head>>
    /\ UNCHANGED xvars

FSBDealloc(a) ==
    /\ strategy = "FixedSizeBlock"
    /\ ~panicked
    /\ BagIn(a, live)
    /\ \E r \in {fsb_dealloc(free_list_heads, fallback_allocator,
                            a.ptr, a.size, a.align)} :
       /\ free_list_heads' = r.heads
       /\ fallback_allocator' = [fallback_allocator EXCEPT !.list = r.list]
       /\ panicked' = (r.panic # "none")
       /\ last' = [op |-> "dealloc", size |-> a.size, align |-> a.align,
                   ptr |-> a.ptr, via |-> r.via,
                   fsize |-> IF r.via = "fallback" THEN a.size ELSE 0,
                   falign |-> IF r.via = "fallback" THEN a.align ELSE 0,
                   panic |-> r.panic]
    /\ live' = live (-) SetToBag({a})
    /\ trace' = TraceAfter(last')
    /\ cycles' = CyclesAfterDealloc
    /\ UNCHANGED <<strategy, initialized, heap_start, heap_size, head>>
    /\ UNCHANGED xvars

Next ==
    \/ \E w \in HeapWindows : LLInit(w)
    \/ \E l \in Layouts : LLAlloc(l)
    \/ \E a \in BagToSet(live) : LLDealloc(a)
    \/ \E w \in HeapWindows : FSBInit(w)
    \/ \E l \in Layouts : FSBAlloc(l)
    \/ \E a \in BagToSet(live) : FSBDealloc(a)

Spec == Init /\ [][Next]_vars

(***************************************************************************)
(* The Free-List allocator on its own, on a heap carved into one more piece *)
(* than above, with fewer layouts and heap windows.                         *)
(***************************************************************************)
\* Layouts <<size, align>>: a small box, a box of one and a half nodes, an
\* over-aligned one, and one whose size added to any heap address overflows
\* the word.
FreeListLayouts ==
    { <<4, 8>>, <<24, 8>>, <<8, 32>>, <<USIZE_MAX - 15, 8>> }

\* A test buffer at a 128-byte boundary and one a node alignment past it.
FreeListWindows == { <<4096, TestHeapSize>>, <<4096 + NodeAlign, TestHeapSize>> }

InitFreeList == Init /\ strategy = "LinkedList"

FreeListAlloc(l) == LLAllocUpTo(l, MaxBlocks + 1)

NextFreeList ==
    \/ \E w \in FreeListWindows : LLInit(w)
    \/ \E l \in FreeListLayouts : FreeListAlloc(l)
    \/ \E a \in BagToSet(live) : LLDealloc(a)

SpecFreeList == InitFreeList /\ [][NextFreeList]_vars

(***************************************************************************)
(* The fixed-size-block allocator on its own, with fewer layouts and heap   *)
(* windows.                                                                 *)
(***************************************************************************)
\* Layouts <<size, align>>: a small box (class 8), one of the next size
\* (class 32), an over-aligned one (class 32 by its alignment), half of the
\* test heap (class 128), and one that no class of the test heap holds.
FixedSizeLayouts == { <<4, 8>>, <<24, 8>>, <<8, 32>>, <<128, 8>>, <<512, 8>> }

\* A test buffer at a 128-byte boundary, one a node alignment past it, and
\* the kernel heap.
FixedSizeWindows ==
    { <<4096, TestHeapSize>>, <<4096 + NodeAlign, TestHeapSize>>,
      <<HEAP_START, HEAP_SIZE>> }

InitFixedSize == Init /\ strategy = "FixedSizeBlock"

NextFixedSize ==
    \/ \E w \in FixedSizeWindows : FSBInit(w)
    \/ \E l \in FixedSizeLayouts : FSBAlloc(l)
    \/ \E a \in BagToSet(live) : FSBDealloc(a)

SpecFixedSize == InitFixedSize /\ [][NextFixedSize]_vars

(***************************************************************************)
(* Mutual-exclusion wrapper (mod.rs, Locked<A>): every call of the global   *)
(* allocator takes the spin::Mutex, runs the strategy and drops the guard.  *)
(* A caller is at "idle", at "lock" (in Locked::lock, spinning while the    *)
(* flag is set), at "inside" (holds the guard, about to run the strategy),  *)
(* at "unlock" (the strategy has returned, the guard is about to drop) or   *)
(* at "panicked".                                                           *)
(***************************************************************************)
\* spin::Mutex::lock, one round of its loop: take the flag when it is clear,
\* spin otherwise.  There is no timeout.
Mutex_lock(flag) ==
    IF ~flag THEN [lock |-> TRUE, at |-> "inside"]
             ELSE [lock |-> flag, at |-> "lock"]

\* Drop of the spin::MutexGuard: the flag is cleared.
MutexGuard_drop(flag) == FALSE

\* Mutant of Locked_lock: the guard is handed out whatever the flag says.
Locked_lock_unchecked(flag) == [lock |-> TRUE, at |-> "inside"]

\* Mutant of Locked_lock: a caller that finds the flag set gives up instead
\* of spinning.
Locked_lock_give_up(flag) ==
    IF ~flag THEN [lock |-> TRUE, at |-> "inside"]
             ELSE [lock |-> flag, at |-> "idle"]

\* Locked::lock.
Locked_lock(flag) == Mutex_lock(flag)

\* Mutant of guard_dropped: the guard is forgotten, not dropped.
guard_forgotten(flag) == flag

\* The end of GlobalAlloc::alloc / dealloc: the guard goes out of scope.
guard_dropped(flag) == MutexGuard_drop(flag)

\* The states in which a caller holds the guard.
Holding == {"inside", "unlock", "panicked"}

\* An interrupt handler runs to its end before the code it interrupted on
\* the same core goes on.
CanRun(c) == (c = "kernel") => (pc["irq"].at = "idle")

AllIdle == \A c \in Callers : pc[c].at = "idle"

\* The calls in progress.
Pending == Cardinality({c \in Callers : pc[c].at # "idle"})

\* Layouts and heap windows of the callers that go through Locked.
LockLayouts == { <<4, 8>>, <<512, 8>> }
LockWindows == { <<4096, TestHeapSize>> }

\* Layouts passed to dealloc with a null pointer: one of a class, one of no
\* class, and the largest layout of alignment 1.
NullLayouts == { <<4, 8>>, <<4096, 8>>, <<USIZE_MAX - 3, 1>> }

\* The result of a strategy call, as the new state of both allocators.
ll_result(r) ==
    [panic |-> r.panic, ptr |-> (IF "ptr" \in DOMAIN r THEN r.ptr ELSE NULL),
     head |-> r.list, heads |-> free_list_heads,
     list |-> fallback_allocator.list]

fsb_result(r) ==
    [panic |-> r.panic, ptr |-> (IF "ptr" \in DOMAIN r THEN r.ptr ELSE NULL),
     head |-> head, heads |-> r.heads, list |-> r.list]

\* What the call does once it holds the guard.
strategy_call(call) ==
    IF strategy = "LinkedList"
    THEN IF call.op = "alloc"
         THEN ll_result(ll_alloc(head, call.size, call.align))
         ELSE ll_result(ll_dealloc(head, call.ptr, call.size, call.align))
    ELSE IF call.op = "alloc"
         THEN fsb_result(fsb_alloc(free_list_heads, fallback_allocator,
                                   call.size, call.align))
         ELSE fsb_result(fsb_dealloc(free_list_heads, fallback_allocator,
                                     call.ptr, call.size, call.align))

\* ALLOCATOR.lock().init(..) of init_heap, at boot: nobody else is calling.
BootInit(w) ==
    /\ AllIdle /\ ~lock
    /\ (LLInit(w) \/ FSBInit(w))

\* A caller enters GlobalAlloc::alloc.  The free-list allocator adjusts the
\* layout before it takes the lock.
CallAlloc(c, l) ==
    /\ ~panicked /\ CanRun(c)
    /\ pc[c].at = "idle"
    /\ Blocks(head, free_list_heads, fallback_allocator, live) + Pending
          < MaxBlocks
    /\ IF strategy = "LinkedList" /\ ~adjust_layout(l[1], l[2]).ok
       THEN /\ panicked' = TRUE
            /\ pc' = [pc EXCEPT ![c] = [at |-> "panicked", op |-> "alloc",
                                        size |-> l[1], align |-> l[2],
                                        ptr |-> NULL]]
       ELSE /\ panicked' = panicked
            /\ pc' = [pc EXCEPT ![c] = [at |-> "lock", op |-> "alloc",
                                        size |-> l[1], align |-> l[2],
                                        ptr |-> NULL]]
    /\ UNCHANGED <<strategy, initialized, heap_start, heap_size, head,
                   free_list_heads, fallback_allocator, live, last, trace,
                   cycles, lock>>
    /\ UNCHANGED <<bvars, uvars, avars>>

\* A caller enters GlobalAlloc::dealloc with a block it owns.
CallDealloc(c, a) ==
    /\ ~panicked /\ CanRun(c)
    /\ pc[c].at = "idle"
    /\ BagIn(a, live)
    /\ live' = live (-) SetToBag({a})
    /\ pc' = [pc EXCEPT ![c] = [at |-> "lock", op |-> "dealloc",
                                size |-> a.size, align |-> a.align,
                                ptr |-> a.ptr]]
    /\ UNCHANGED <<strategy, initialized, heap_start, heap_size, head,
                   free_list_heads, fallback_allocator, last, trace,
                   panicked, cycles, lock>>
    /\ UNCHANGED <<bvars, uvars, avars>>

\* A caller enters GlobalAlloc::dealloc of the fixed-size-block allocator
\* with a null pointer.
CallDeallocNull(c, l) ==
    /\ ~panicked /\ CanRun(c)
    /\ strategy = "FixedSizeBlock"
    /\ pc[c].at = "idle"
    /\ pc' = [pc EXCEPT ![c] = [at |-> "lock", op |-> "dealloc",
                                size |-> l[1], align |-> l[2],
                                ptr |-> NULL]]
    /\ UNCHANGED <<strategy, initialized, heap_start, heap_size, head,
                   free_list_heads, fallback_allocator, live, last, trace,
                   panicked, cycles, lock>>
    /\ UNCHANGED <<bvars, uvars, avars>>

\* self.lock(): one round of the spin loop.
Acquire(c) ==
    /\ ~panicked /\ CanRun(c)
    /\ pc[c].at = "lock"
    /\ \E r \in {Locked_lock(lock)} :
       /\ lock' = r.lock
       /\ pc' = [pc EXCEPT ![c].at = r.at]
    /\ UNCHANGED <<strategy, initialized, heap_start, heap_size, head,
                   free_list_heads, fallback_allocator, live, last, trace,
                   panicked, cycles>>
    /\ UNCHANGED <<bvars, uvars, avars>>

\* The strategy runs under the guard.
Run(c) ==
    /\ ~panicked /\ CanRun(c)
    /\ pc[c].at = "inside"
    /\ \E r \in {strategy_call(pc[c])} :
       /\ head' = r.head
       /\ free_list_heads' = r.heads
       /\ fallback_allocator' = [fallback_allocator EXCEPT !.list = r.list]
       /\ panicked' = (r.panic # "none")
       /\ pc' = [pc EXCEPT
                   ![c].at = IF r.panic = "none" THEN "unlock" ELSE "panicked",
                   ![c].ptr = IF pc[c].op = "alloc" THEN r.ptr ELSE @]
       /\ live' = IF pc[c].op = "alloc" /\ r.ptr # NULL
                  THEN live (+) SetToBag({[ptr |-> r.ptr, size |-> pc[c].size,
                                           align |-> pc[c].align]})
                  ELSE live
    /\ UNCHANGED <<strategy, initialized, heap_start, heap_size, last, trace,
                   cycles, lock>>
    /\ UNCHANGED <<bvars, uvars, avars>>

\* The guard is dropped and the call returns.
Release(c) ==
    /\ ~panicked /\ CanRun(c)
    /\ pc[c].at = "unlock"
    /\ lock' = guard_dropped(lock)
    /\ last' = [NoCall EXCEPT !.op = pc[c].op, !.size = pc[c].size,
                              !.align = pc[c].align, !.ptr = pc[c].ptr]
    /\ pc' = [pc EXCEPT ![c] = Idle]
    /\ UNCHANGED <<strategy, initialized, heap_start, heap_size, head,
                   free_list_heads, fallback_allocator, live, trace,
                   panicked, cycles>>
    /\ UNCHANGED <<bvars, uvars, avars>>

NextLocked ==
    \/ \E w \in LockWindows : BootInit(w)
    \/ \E c \in Callers, l \in LockLayouts : CallAlloc(c, l)
    \/ \E c \in Callers, a \in BagToSet(live) : CallDealloc(c, a)
    \/ \E c \in Callers, l \in NullLayouts : CallDeallocNull(c, l)
    \/ \E c \in Callers : Acquire(c)
    \/ \E c \in Callers : Run(c)
    \/ \E c \in Callers : Release(c)

SpecLocked == Init /\ [][NextLocked]_vars

(***************************************************************************)
(* Frame source (memory/boot_info_frame_allocator.rs).  A frame or a page   *)
(* is named by its start address; None is the Option::None of               *)
(* allocate_frame.                                                          *)
(***************************************************************************)
PAGE_SIZE == 4096

None == -1

\* Page::containing_address / PhysFrame::containing_address.
containing_address(addr) == addr - (addr % PAGE_SIZE)

\* (start..end).step_by(PAGE_SIZE), mapped to the frames that hold the
\* addresses.
region_frames(region) ==
    [k \in 1..((Max(region.end - region.start, 0) + PAGE_SIZE - 1) \div PAGE_SIZE)
       |-> containing_address(region.start + (k - 1) * PAGE_SIZE)]

RECURSIVE frames_from(_, _)
frames_from(map, i) ==
    IF i > Len(map) THEN <<>>
    ELSE IF map[i].usable
         THEN region_frames(map[i]) \o frames_from(map, i + 1)
         ELSE frames_from(map, i + 1)

\* BootInfoFrameAllocator::usable_frames.
usable_frames(map) == frames_from(map, 1)

\* usable_frames().nth(n).
nth(frames, n) == IF n < Len(frames) THEN frames[n + 1] ELSE None

\* Mutant of allocate_frame: the cursor does not move.
allocate_frame_stuck(map, n) ==
    [frame |-> nth(usable_frames(map), n), next |-> n]

\* BootInfoFrameAllocator::allocate_frame.
allocate_frame(map, n) ==
    [frame |-> nth(usable_frames(map), n), next |-> wrapping_add(n, 1)]

\* The memory maps of the bootloader: usable regions are page-aligned and
\* no two regions intersect.  No region; ten usable frames; ten usable
\* frames, a reserved region and thirty usable frames; a reserved region
\* and as many usable frames as the heap has pages; two usable regions
\* side by side before a reserved one.
MemoryMaps ==
    { <<>>,
      << [start |-> 2 * PAGE_SIZE, end |-> 10 * PAGE_SIZE, usable |-> TRUE],
         [start |-> 10 * PAGE_SIZE, end |-> 22 * PAGE_SIZE, usable |-> TRUE],
         [start |-> 22 * PAGE_SIZE, end |-> 30 * PAGE_SIZE, usable |-> FALSE] >>,
      << [start |-> 4 * PAGE_SIZE, end |-> 14 * PAGE_SIZE, usable |-> TRUE] >>,
      << [start |-> 4 * PAGE_SIZE, end |-> 14 * PAGE_SIZE, usable |-> TRUE],
         [start |-> 14 * PAGE_SIZE, end |-> 20 * PAGE_SIZE, usable |-> FALSE],
         [start |-> 20 * PAGE_SIZE, end |-> 50 * PAGE_SIZE, usable |-> TRUE] >>,
      << [start |-> 0, end |-> 8 * PAGE_SIZE, usable |-> FALSE],
         [start |-> 8 * PAGE_SIZE, end |-> 8 * PAGE_SIZE + HEAP_SIZE,
          usable |-> TRUE] >> }

\* Calls of allocate_frame made once every usable frame is handed out.
MaxExtraCalls == 3

\* BootInfoFrameAllocator::init, on any memory map.
InitFrames ==
    /\ strategy = "FixedSizeBlock"
    /\ initialized = FALSE
    /\ heap_start = 0
    /\ heap_size = 0
    /\ head = <<>>
    /\ free_list_heads = [i \in 1..FREE_LISTS_COUNT |-> <<>>]
    /\ fallback_allocator = Heap_empty
    /\ live = EmptyBag
    /\ last = NoCall
    /\ trace = <<>>
    /\ panicked = FALSE
    /\ cycles = -1
    /\ LockIdle /\ BumpIdle /\ AlignIdle
    /\ memory_map \in MemoryMaps
    /\ next = 0
    /\ handed = <<>>
    /\ premapped = {}
    /\ huge_parent = {}
    /\ missing_tables = 0
    /\ mapped = <<>>
    /\ boot = BootOff

\* A call of allocate_frame.
AllocateFrame ==
    /\ next < Len(usable_frames(memory_map)) + MaxExtraCalls
    /\ \E r \in {allocate_frame(memory_map, next)} :
       /\ next' = r.next
       /\ handed' = Append(handed, r.frame)
    /\ UNCHANGED <<strategy, initialized, heap_start, heap_size, head,
                   free_list_heads, fallback_allocator, live, last, trace,
                   panicked, cycles>>
    /\ UNCHANGED <<memory_map, premapped, huge_parent, missing_tables, mapped,
                   boot>>
    /\ UNCHANGED <<lvars, uvars, avars>>

NextFrames == AllocateFrame

SpecFrames == InitFrames /\ [][NextFrames]_vars

(***************************************************************************)
(* Heap mapper (mod.rs, init_heap): one frame and one map_to per page of    *)
(* the heap window, then the init of the global allocator.  init_heap is    *)
(* at "mapping" (in the loop, about to map page i), at "init" (the loop is  *)
(* over), at "ok" or at "err" (it has returned).                            *)
(***************************************************************************)
\* Mutant of heap_region_pages: the range leaves out the end page.
heap_region_pages_exclusive ==
    [k \in 1..((containing_address(HEAP_START + HEAP_SIZE - 1)
                - containing_address(HEAP_START)) \div PAGE_SIZE)
       |-> containing_address(HEAP_START) + (k - 1) * PAGE_SIZE]

\* heap_region_pages: Page::range_inclusive(start_page, end_page).
heap_region_pages ==
    [k \in 1..((containing_address(HEAP_START + HEAP_SIZE - 1)
                - containing_address(HEAP_START)) \div PAGE_SIZE + 1)
       |-> containing_address(HEAP_START) + (k - 1) * PAGE_SIZE]

\* PageTableFlags::PRESENT | PageTableFlags::WRITABLE.
HeapFlags == {"PRESENT", "WRITABLE"}

\* The frames map_to takes from the frame allocator for the page tables it
\* has to create: it asks for one at a time and stops at the first None.
table_frames(map, n, tables) ==
    IF \E k \in 1..tables : nth(usable_frames(map), n + k - 1) = None
    THEN [k \in 1..(CHOOSE j \in 1..tables :
                      /\ nth(usable_frames(map), n + j - 1) = None
                      /\ \A h \in 1..(j - 1) :
                            nth(usable_frames(map), n + h - 1) # None)
            |-> nth(usable_frames(map), n + k - 1)]
    ELSE [k \in 1..tables |-> nth(usable_frames(map), n + k - 1)]

\* Mapper::map_to(page, frame, flags, frame_allocator): the parent tables
\* are walked and created first, then the entry of the page is written
\* unless it is in use.
map_to(page, frame, flags, map, n, tables) ==
    IF page \in huge_parent
    THEN [result |-> "ParentEntryHugePage", next |-> n, frames |-> <<>>,
          mapping |-> <<>>]
    ELSE IF \E k \in 1..tables : nth(usable_frames(map), n + k - 1) = None
    THEN [result |-> "FrameAllocationFailed",
          next |-> n + Len(table_frames(map, n, tables)),
          frames |-> table_frames(map, n, tables), mapping |-> <<>>]
    ELSE IF page \in premapped \/ \E k \in 1..Len(mapped) : mapped[k].page = page
    THEN [result |-> "PageAlreadyMapped", next |-> n + tables,
          frames |-> table_frames(map, n, tables), mapping |-> <<>>]
    ELSE [result |-> "Ok", next |-> n + tables,
          frames |-> table_frames(map, n, tables),
          mapping |-> << [page |-> page, frame |-> frame, flags |-> flags] >>]

\* One iteration of the loop of init_heap, from the frame it got.
map_page(f, i) ==
    IF f.frame = None
    THEN [result |-> "FrameAllocationFailed", next |-> f.next,
          frames |-> <<>>, mapping |-> <<>>]
    ELSE map_to(heap_region_pages[i], f.frame, HeapFlags, memory_map, f.next,
                IF i = 1 THEN missing_tables ELSE 0)

\* Mutant of after_page: a page that failed is skipped.
after_page_continue(result, i) ==
    [at |-> IF i < Len(heap_region_pages) THEN "mapping" ELSE "init",
     i |-> i + 1, error |-> "none"]

\* The two `?` of the loop: go on with the next page, or return the error.
after_page(result, i) ==
    IF result = "Ok"
    THEN [at |-> IF i < Len(heap_region_pages) THEN "mapping" ELSE "init",
          i |-> i + 1, error |-> "none"]
    ELSE [at |-> "err", i |-> i, error |-> result]

\* What the page table holds when init_heap is called: nothing of the heap
\* window, one of its pages, or a page outside it.
Premapped ==
    { {}, {heap_region_pages[5]}, {containing_address(HEAP_START) - PAGE_SIZE} }

\* A heap page may lie under a huge page.
HugeParents == { {}, {heap_region_pages[7]} }

\* Layouts requested once init_heap has returned.
BootLayouts == { <<4, 8>>, <<4096, 8>>, <<USIZE_MAX - 3, 1>> }

\* kernel_main up to the call of init_heap: the global allocator is
\* FixedSizeBlockAllocator::empty(), the frame allocator is fresh.
InitBoot ==
    /\ strategy = "FixedSizeBlock"
    /\ initialized = FALSE
    /\ heap_start = 0
    /\ heap_size = 0
    /\ head = <<>>
    /\ free_list_heads = [i \in 1..FREE_LISTS_COUNT |-> <<>>]
    /\ fallback_allocator = Heap_empty
    /\ live = EmptyBag
    /\ last = NoCall
    /\ trace = <<>>
    /\ panicked = FALSE
    /\ cycles = -1
    /\ LockIdle /\ BumpIdle /\ AlignIdle
    /\ memory_map \in MemoryMaps
    /\ next = 0
    /\ handed = <<>>
    /\ premapped \in Premapped
    /\ huge_parent \in HugeParents
    /\ missing_tables \in {0, 3}
    /\ mapped = <<>>
    /\ boot = [at |-> "mapping", i |-> 1, frames |-> 0, error |-> "none",
               failed |-> "none"]

\* One iteration of `for page in heap_region_pages()`.
MapPage ==
    /\ boot.at = "mapping"
    /\ \E f \in {allocate_frame(memory_map, next)} :
       \E r \in {map_page(f, boot.i)} :
          /\ next' = r.next
          /\ handed' = handed \o <<f.frame>> \o r.frames
          /\ mapped' = mapped \o r.mapping
          /\ boot' = after_page(r.result, boot.i)
                     @@ [frames |-> boot.frames + 1 + Len(r.frames),
                         failed |-> IF boot.failed = "none" /\ r.result # "Ok"
                                    THEN r.result ELSE boot.failed]
    /\ UNCHANGED <<strategy, initialized, heap_start, heap_size, head,
                   free_list_heads, fallback_allocator, live, last, trace,
                   panicked, cycles>>
    /\ UNCHANGED <<memory_map, premapped, huge_parent, missing_tables>>
    /\ UNCHANGED <<lvars, uvars, avars>>

\* ALLOCATOR.lock().init(HEAP_START, HEAP_SIZE), and the return.
InitAllocator ==
    /\ boot.at = "init"
    /\ \E r \in {fsb_init(fallback_allocator, HEAP_START, HEAP_SIZE)} :
       /\ fallback_allocator' = [size |-> r.size, list |-> r.list]
       /\ panicked' = (r.panic # "none")
    /\ initialized' = TRUE
    /\ heap_start' = HEAP_START
    /\ heap_size' = HEAP_SIZE
    /\ trace' = <<>>
    /\ cycles' = 0
    /\ boot' = [boot EXCEPT !.at = IF boot.error = "none" THEN "ok" ELSE "err"]
    /\ UNCHANGED <<strategy, head, free_list_heads, live, last>>
    /\ UNCHANGED <<memory_map, next, handed, premapped, huge_parent,
                   missing_tables, mapped>>
    /\ UNCHANGED <<lvars, uvars, avars>>

\* Calls of the global allocator once init_heap has returned.
BootAlloc(l) == boot.at \in {"ok", "err"} /\ FSBAlloc(l)

BootDealloc(a) == boot.at \in {"ok", "err"} /\ FSBDealloc(a)

NextBoot ==
    \/ MapPage
    \/ InitAllocator
    \/ \E l \in BootLayouts : BootAlloc(l)
    \/ \E a \in BagToSet(live) : BootDealloc(a)

SpecBoot == InitBoot /\ [][NextBoot]_vars

(***************************************************************************)
(* Address utility (mod.rs, align_up) called on its own.                    *)
(***************************************************************************)
\* Addresses around the boundaries of the alignments and of the word.
AlignAddrs ==
    (0..9) \cup { 100, PAGE_SIZE - 1, PAGE_SIZE, PAGE_SIZE + 100,
                  4 * PAGE_SIZE, HEAP_START, HEAP_START + 1,
                  WORD \div 2, WORD - PAGE_SIZE, WORD - PAGE_SIZE + 1,
                  USIZE_MAX - 8, USIZE_MAX - 7, USIZE_MAX - 3, USIZE_MAX }

\* The powers of two of the word.
Aligns == { 2 ^ k : k \in 0..(WordBits - 1) }

\* `addr + align - 1` overflows the word: the call panics in a build with
\* overflow checks and wraps in a build without.
align_up_outcomes(addr, align) ==
    IF addr + align - 1 > USIZE_MAX
    THEN { [panic |-> TRUE, result |-> 0],
           [panic |-> FALSE, result |-> align_up(addr, align)] }
    ELSE { [panic |-> FALSE, result |-> align_up(addr, align)] }

\* A call of align_up(addr, align).
AlignUp(addr, align) ==
    /\ \E r \in align_up_outcomes(addr, align) :
          au' = [called |-> TRUE, addr |-> addr, align |-> align,
                 panic |-> r.panic, result |-> r.result]
    /\ UNCHANGED <<strategy, initialized, heap_start, heap_size, head,
                   free_list_heads, fallback_allocator, live, last, trace,
                   panicked, cycles>>
    /\ UNCHANGED <<lvars, bvars, uvars, fli>>

NextAlign == \E addr \in AlignAddrs, align \in Aligns : AlignUp(addr, align)

SpecAlign == Init /\ [][NextAlign]_vars

(***************************************************************************)
(* Class selection of the fixed-size-block allocator (free_list_index)      *)
(* called on its own, for a fallback arena of a given capacity.             *)
(***************************************************************************)
\* Capacities of the arena: none, around the sizes of the classes, the test
\* heap and the kernel heap.
Capacities ==
    { 0, 8, 9, 16, 17, 64, 65, 128, 129, TestHeapSize, 2048, 2049, HEAP_SIZE }

\* Layouts <<size, align>> around the sizes and alignments of the classes.
ClassLayouts ==
    { <<sz, al>> : sz \in { 1, 8, 9, 16, 33, 64, 65, 128, 2048, 2049 },
                   al \in { 1, 8, 16, 64, 2048, 4096 } }

\* A call of free_list_index(layout) on an allocator whose arena has the
\* capacity cap.
FreeListIndex(cap, l) ==
    /\ fli' = [called |-> TRUE, heap_size |-> cap, size |-> l[1],
               align |-> l[2],
               index |-> free_list_index([Heap_empty EXCEPT !.size = cap],
                                         l[1], l[2])]
    /\ UNCHANGED <<strategy, initialized, heap_start, heap_size, head,
                   free_list_heads, fallback_allocator, live, last, trace,
                   panicked, cycles>>
    /\ UNCHANGED <<lvars, bvars, uvars, au>>

NextClasses == \E cap \in Capacities, l \in ClassLayouts : FreeListIndex(cap, l)

SpecClasses == Init /\ [][NextClasses]_vars

(***************************************************************************)
(* Bump allocator (mod.rs declares `pub mod bump`), a state machine over    *)
(* {next_free, heap_end, allocation_count} and the heap start it resets to. *)
(***************************************************************************)
\* init(heap_start, heap_size).
bump_init(b, start, size) ==
    [heap_start |-> start, heap_end |-> start + size, next_free |-> start,
     allocation_count |-> b.allocation_count]

\* Mutant of bump_alloc_at: the address after the block is returned.
bump_alloc_at_end(b, alloc_start, size) ==
    IF alloc_start + size > b.heap_end
    THEN [ptr |-> NULL, bump |-> b]
    ELSE [ptr |-> alloc_start + size,
          bump |-> [b EXCEPT !.next_free = alloc_start + size,
                             !.allocation_count = b.allocation_count + 1]]

\* alloc, from the aligned start: null when the block would end past
\* heap_end, else the block is taken.
bump_alloc_at(b, alloc_start, size) ==
    IF alloc_start + size > b.heap_end
    THEN [ptr |-> NULL, bump |-> b]
    ELSE [ptr |-> alloc_start,
          bump |-> [b EXCEPT !.next_free = alloc_start + size,
                             !.allocation_count = b.allocation_count + 1]]

\* alloc(size, align): next_free is rounded up to align first.
bump_alloc(b, size, align) ==
    bump_alloc_at(b, align_up(b.next_free, align), size)

\* Mutant of bump_dealloc: every dealloc resets next_free.
bump_dealloc_reset(b, ptr, size, align) ==
    [b EXCEPT !.allocation_count = b.allocation_count - 1,
              !.next_free = b.heap_start]

\* dealloc(_, _): one allocation less, and a reset when none is left.  The
\* pointer and the layout are not looked at.
bump_dealloc(b, ptr, size, align) ==
    IF b.allocation_count - 1 = 0
    THEN [b EXCEPT !.allocation_count = 0, !.next_free = b.heap_start]
    ELSE [b EXCEPT !.allocation_count = b.allocation_count - 1]

\* Layouts and heap windows given to the bump allocator.
BumpLayouts == { <<4, 8>>, <<8, 32>>, <<24, 8>>, <<150, 8>> }
BumpWindows == { <<4096, 64>>, <<4096 + NodeAlign, 96>> }

BumpInit(w) ==
    /\ bump = BumpEmpty
    /\ bump' = bump_init(bump, w[1], w[2])
    /\ bump_last' = [op |-> "init", size |-> 0, align |-> 0, ptr |-> NULL,
                     before |-> bump]
    /\ UNCHANGED <<strategy, initialized, heap_start, heap_size, head,
                   free_list_heads, fallback_allocator, live, last, trace,
                   panicked, cycles>>
    /\ UNCHANGED <<lvars, bvars, avars>>

BumpAlloc(l) ==
    /\ \E r \in {bump_alloc(bump, l[1], l[2])} :
       /\ bump' = r.bump
       /\ bump_last' = [op |-> "alloc", size |-> l[1], align |-> l[2],
                        ptr |-> r.ptr, before |-> bump]
       /\ live' = IF r.ptr # NULL
                  THEN live (+) SetToBag({[ptr |-> r.ptr, size |-> l[1],
                                           align |-> l[2]]})
                  ELSE live
       /\ BagCardinality(live') <= MaxBlocks
    /\ UNCHANGED <<strategy, initialized, heap_start, heap_size, head,
                   free_list_heads, fallback_allocator, last, trace,
                   panicked, cycles>>
    /\ UNCHANGED <<lvars, bvars, avars>>

\* dealloc of a block that is allocated (no double free), whichever it is.
BumpDealloc(a) ==
    /\ BagIn(a, live)
    /\ bump' = bump_dealloc(bump, a.ptr, a.size, a.align)
    /\ bump_last' = [op |-> "dealloc", size |-> a.size, align |-> a.align,
                     ptr |-> a.ptr, before |-> bump]
    /\ live' = live (-) SetToBag({a})
    /\ UNCHANGED <<strategy, initialized, heap_start, heap_size, head,
                   free_list_heads, fallback_allocator, last, trace,
                   panicked, cycles>>
    /\ UNCHANGED <<lvars, bvars, avars>>

NextBump ==
    \/ \E w \in BumpWindows : BumpInit(w)
    \/ \E l \in BumpLayouts : BumpAlloc(l)
    \/ \E a \in BagToSet(live) : BumpDealloc(a)

SpecBump == Init /\ [][NextBump]_vars

(***************************************************************************)
(* Properties.                                                              *)
(***************************************************************************)
LiveSet == BagToSet(live)

\* The call was alloc(size, align) and returned a non-null pointer.
Allocated(call, size, align) ==
    /\ call.op = "alloc" /\ call.size = size /\ call.align = align
    /\ call.panic = "none" /\ call.ptr # NULL

FreshTestHeap == initialized /\ heap_size = TestHeapSize

\* C1: any two live allocations have non-intersecting ranges
\* [ptr, ptr + size), under both allocators; and the first two calls on a
\* fresh 256-byte heap, both alloc(4, 8), return non-null, different
\* addresses.
C1_NonOverlap ==
    /\ \A a \in LiveSet :
          /\ CopiesIn(a, live) = 1
          /\ \A b \in LiveSet \ {a} :
                a.ptr + a.size <= b.ptr \/ b.ptr + b.size <= a.ptr
    /\ ( /\ FreshTestHeap
         /\ trace # <<ManyCalls>> /\ Len(trace) >= 2
         /\ trace[1].op = "alloc" /\ trace[1].size = 4 /\ trace[1].align = 8
         /\ trace[2].op = "alloc" /\ trace[2].size = 4 /\ trace[2].align = 8 )
       => /\ Allocated(trace[1], 4, 8)
          /\ Allocated(trace[2], 4, 8)
          /\ trace[1].ptr # trace[2].ptr

\* Two alloc(4, 8) calls on a fresh 256-byte heap of the fixed-size-block
\* allocator have returned and both blocks are live.
C1_Witness ==
    /\ strategy = "FixedSizeBlock" /\ FreshTestHeap
    /\ Len(trace) = 2
    /\ Allocated(trace[1], 4, 8) /\ Allocated(trace[2], 4, 8)
    /\ BagCardinality(live) = 2

\* C2: every successful alloc(size, align) returns an address that is a
\* multiple of align.
C2_Alignment ==
    (last.op = "alloc" /\ last.ptr # NULL) => last.ptr % last.align = 0

\* An over-aligned request (8 bytes, align 32) was served by popping the
\* class list, on a heap that does not start on a 32-byte boundary.
C2_Witness ==
    /\ Allocated(last, 8, 32) /\ last.via = "class_list"
    /\ heap_start % 32 # 0

\* C3: every successful alloc(size, align) returns a block inside the heap
\* window: heap_start <= ptr and ptr + size <= heap_start + heap_size.
C3_Bounds ==
    (last.op = "alloc" /\ last.ptr # NULL)
    => /\ initialized
       /\ heap_start <= last.ptr
       /\ last.ptr + last.size <= heap_start + heap_size

\* A block that ends exactly at the end of the heap window was returned.
C3_Witness ==
    /\ last.op = "alloc" /\ last.ptr # NULL
    /\ last.ptr + last.size = heap_start + heap_size

\* C4: on an initialised heap, alloc of a size greater than the heap
\* capacity returns null.
C4_NullWhenTooBig ==
    (initialized /\ last.op = "alloc" /\ last.size > heap_size)
    => (last.panic = "none" /\ last.ptr = NULL)

\* C5: a dealloc(p, L) directly followed by alloc(L) with the same layout
\* makes that alloc return non-null (p is live with layout L, so an
\* alloc(L) returned it).
C5_ReuseAfterFree ==
    [][ ( /\ last.op = "dealloc"
          /\ last'.op = "alloc"
          /\ last'.size = last.size /\ last'.align = last.align )
        => (last'.panic = "none" /\ last'.ptr # NULL) ]_vars

\* alloc(150, 8), dealloc of the block, alloc(150, 8) on a fresh 256-byte
\* heap: the request goes through the fallback arena and succeeds again.
C5_Witness ==
    /\ strategy = "FixedSizeBlock" /\ FreshTestHeap
    /\ Len(trace) = 3
    /\ Allocated(trace[1], 150, 8)
    /\ trace[2].op = "dealloc" /\ trace[2].ptr = trace[1].ptr
    /\ trace[2].size = 150 /\ trace[2].via = "fallback"
    /\ Allocated(trace[3], 150, 8) /\ trace[3].via = "fallback"

\* C6: in a run of "alloc a small block, free it" cycles on an initialised
\* heap, every call returns and every alloc returns non-null, however many
\* cycles have been made.
C6_StressCycles ==
    (cycles >= 0 /\ trace # <<>>)
    => /\ last.panic = "none"
       /\ last.op = "alloc" => last.ptr # NULL

\* MaxCycles cycles are complete and the alloc of the next one succeeded.
C6_Witness ==
    /\ cycles = MaxCycles
    /\ last.op = "alloc" /\ last.ptr # NULL
    /\ heap_size = HEAP_SIZE

\* C7: an allocator that was never initialised returns null for every
\* alloc, and stays empty.
C7_EmptyReturnsNull ==
    (~initialized /\ last.op = "alloc")
    => /\ last.panic = "none" /\ last.ptr = NULL
       /\ head = <<>>
       /\ fallback_allocator = Heap_empty
       /\ \A i \in 1..FREE_LISTS_COUNT : free_list_heads[i] = <<>>

\* The fixed-size-block call last was made for a layout no class holds.
NoClass(call) ==
    /\ strategy = "FixedSizeBlock"
    /\ call.op \in {"alloc", "dealloc"}
    /\ free_list_index(fallback_allocator, call.size, call.align) = 0

\* C8: a fixed-size-block request no class qualifies for goes to the
\* fallback arena with its original layout, its dealloc goes to the
\* fallback arena's dealloc, and neither changes a class list.
C8_ClassFallback ==
    /\ [](NoClass(last) =>
            /\ last.via = "fallback"
            /\ last.fsize = last.size /\ last.falign = last.align)
    /\ [][ (last' # last /\ NoClass(last)')
           => free_list_heads' = free_list_heads ]_vars

\* A 4096-byte block, over the largest class, was served by the fallback
\* arena and freed through it, while a class list holds a block.
C8_Witness ==
    /\ strategy = "FixedSizeBlock"
    /\ last.op = "dealloc" /\ last.size = 4096 /\ last.via = "fallback"
    /\ \E i \in 1..FREE_LISTS_COUNT : free_list_heads[i] # <<>>

C10_NoPanic == initialized => (~panicked /\ last.panic = "none")

\* The only panic a call can raise is the one of adjust_layout.
OnlyAdjustLayoutPanics ==
    panicked => last.panic = "adjusting alignment failed"

\* C11: at most one caller at a time holds the guard of the Locked wrapper,
\* and a caller waiting in Locked::lock gets the guard only when no other
\* caller holds it.
C11_MutualExclusion ==
    /\ [](\A c, d \in Callers :
            (pc[c].at \in Holding /\ pc[d].at \in Holding) => c = d)
    /\ [][ \A c \in Callers :
             (pc[c].at = "lock" /\ pc'[c].at = "inside")
             => (~lock /\ \A d \in Callers : pc[d].at \notin Holding) ]_vars

\* One caller holds the guard while another one spins in Locked::lock.
C11_Witness ==
    /\ pc["kernel"].at = "inside"
    /\ pc["cpu1"].at = "lock"
    /\ lock

\* C12: the lock is held exactly while some call is between taking the
\* guard and dropping it: a call holds it for all of its access to the
\* allocator, and when every call has returned the lock is free.
C12_LockReleased ==
    /\ lock = (\E c \in Callers : pc[c].at \in Holding)
    /\ AllIdle => ~lock

\* An alloc that found no memory has returned null, and the lock is free.
C12_Witness ==
    /\ initialized /\ AllIdle /\ ~lock
    /\ last.op = "alloc" /\ last.ptr = NULL /\ last.size = 512

\* The interrupt handler spins in Locked::lock while the code it
\* interrupted holds the guard.
SelfDeadlock ==
    /\ pc["irq"].at = "lock"
    /\ pc["kernel"].at \in {"inside", "unlock"}

\* C13: once an interrupt handler waits for the lock that the interrupted
\* code holds, it waits forever: the lock stays held, the handler stays in
\* Locked::lock and the interrupted call does not go on.
C13_InterruptDeadlock ==
    [][ SelfDeadlock
        => (SelfDeadlock' /\ lock' /\ pc'["kernel"] = pc["kernel"]) ]_vars

\* A handler called alloc while the kernel was inside its own alloc.
C13_Witness ==
    /\ SelfDeadlock
    /\ pc["irq"].op = "alloc" /\ pc["kernel"].op = "alloc"

\* C19: dealloc of a null pointer on the fixed-size-block allocator changes
\* no class list and nothing of the fallback arena, and does not panic,
\* whatever the layout.
C19_DeallocNullNoOp ==
    [][ \A c \in Callers :
          ( /\ strategy = "FixedSizeBlock"
            /\ pc[c].at = "inside" /\ pc[c].op = "dealloc" /\ pc[c].ptr = NULL
            /\ pc'[c].at # "inside" )
          => /\ free_list_heads' = free_list_heads
             /\ fallback_allocator' = fallback_allocator
             /\ ~panicked'
             /\ pc'[c].at = "unlock" ]_vars

\* dealloc(null) with a layout of no class has returned on an initialised
\* allocator whose class lists hold a block.
C19_Witness ==
    /\ strategy = "FixedSizeBlock" /\ initialized
    /\ last.op = "dealloc" /\ last.ptr = NULL /\ last.size = 4096
    /\ \E i \in 1..FREE_LISTS_COUNT : free_list_heads[i] # <<>>

\* The frames of the usable regions of the memory map.
UsableFrameSet ==
    { f \in { PAGE_SIZE * n : n \in 0..(USIZE_MAX \div PAGE_SIZE) } :
        /\ \E i \in 1..Len(memory_map) :
              /\ memory_map[i].usable
              /\ memory_map[i].start <= f /\ f < memory_map[i].end }

\* The region of the memory map a frame lies in.
RegionOf(f) ==
    CHOOSE i \in 1..Len(memory_map) :
        memory_map[i].start <= f /\ f < memory_map[i].end

\* C17: the calls of allocate_frame return pairwise distinct frames, the
\* k-th call the k-th frame of the usable regions in map order (no usable
\* frame is skipped, none comes from another region), and None once every
\* usable frame is handed out.
C17_DistinctFrames ==
    \A k \in 1..Len(handed) :
        /\ k <= Cardinality(UsableFrameSet)
           => /\ handed[k] \in UsableFrameSet
              /\ Cardinality({ f \in UsableFrameSet :
                                 \/ RegionOf(f) < RegionOf(handed[k])
                                 \/ /\ RegionOf(f) = RegionOf(handed[k])
                                    /\ f < handed[k] }) = k - 1
              /\ \A j \in 1..(k - 1) : handed[j] # handed[k]
        /\ k > Cardinality(UsableFrameSet) => handed[k] = None

\* Every frame of a map with a reserved region between two usable ones is
\* handed out, and the calls after that returned None.
C17_Witness ==
    /\ Len(memory_map) = 3
    /\ Len(handed) = 40 + MaxExtraCalls
    /\ handed[11] = 20 * PAGE_SIZE
    /\ handed[41] = None

\* The pages of the window [HEAP_START, HEAP_START + HEAP_SIZE).
HeapPageSet ==
    { p \in { PAGE_SIZE * n : n \in 0..(USIZE_MAX \div PAGE_SIZE) } :
        HEAP_START - PAGE_SIZE < p /\ p < HEAP_START + HEAP_SIZE }

\* C14: when the mapping loop of init_heap has succeeded, the pages it has
\* mapped are the HEAP_SIZE / 4096 pages of the heap window and no other
\* page, each once, present and writable, each to a frame of its own that
\* the frame source handed out.
C14_HeapMapped ==
    boot.at \in {"init", "ok"}
    => /\ { mapped[k].page : k \in 1..Len(mapped) } = HeapPageSet
       /\ Len(mapped) = HEAP_SIZE \div PAGE_SIZE
       /\ \A k \in 1..Len(mapped) :
             /\ mapped[k].flags = {"PRESENT", "WRITABLE"}
             /\ mapped[k].frame # None
             /\ \E j \in 1..Len(handed) : handed[j] = mapped[k].frame
             /\ \A j \in 1..Len(mapped) :
                   j # k => /\ mapped[j].frame # mapped[k].frame
                            /\ mapped[j].page # mapped[k].page

\* init_heap returned Ok after map_to had to create the page tables of the
\* heap window.
C14_Witness ==
    /\ boot.at = "ok"
    /\ missing_tables = 3
    /\ Len(handed) = Len(mapped) + 3

\* C15: the first failure ends init_heap with that error
\* (FrameAllocationFailed when the frame source is exhausted, the error of
\* map_to otherwise); the pages of the loop before it stay mapped, and
\* after the return no page is mapped and no frame is requested.
C15_StopAtFirstFailure ==
    /\ [](boot.failed # "none"
          => /\ boot.at = "err"
             /\ boot.error = boot.failed
             /\ ~initialized
             /\ Len(mapped) = boot.i - 1
             /\ \A k \in 1..Len(mapped) : mapped[k].page = heap_region_pages[k]
             /\ (handed # <<>> /\ handed[Len(handed)] = None)
                => boot.error = "FrameAllocationFailed")
    /\ [][ boot.at = "err"
           => (boot' = boot /\ mapped' = mapped /\ next' = next
               /\ handed' = handed) ]_vars

\* The frame source ran out in the middle of the heap window.
C15_Witness ==
    /\ boot.at = "err" /\ boot.error = "FrameAllocationFailed"
    /\ Len(mapped) = 10
    /\ last.op = "alloc"

\* The heap window is mapped in full.
AllHeapMapped ==
    \A p \in HeapPageSet : \E k \in 1..Len(mapped) : mapped[k].page = p

InitOnlyAfterMapping ==
    /\ initialized => (AllHeapMapped /\ boot.at = "ok")
    /\ boot.at = "err" => (~initialized /\ fallback_allocator = Heap_empty)

\* The result of the call is the smallest multiple of align at or above
\* addr.
SmallestMultipleAbove ==
    /\ ~au.panic
    /\ au.result % au.align = 0
    /\ au.result >= au.addr
    /\ au.result - au.addr < au.align

RoundedUp(addr, align) ==
    CHOOSE m \in addr..(addr + align - 1) : m % align = 0

\* C20: an alloc(size, align) of the bump allocator rounds next_free up to
\* align; when that start plus size exceeds heap_end it returns null and
\* changes nothing; otherwise it returns the rounded start, next_free is
\* that start plus size and allocation_count is one more.
C20_BumpAlloc ==
    bump_last.op = "alloc"
    => IF RoundedUp(bump_last.before.next_free, bump_last.align)
             + bump_last.size > bump_last.before.heap_end
       THEN /\ bump_last.ptr = NULL
            /\ bump = bump_last.before
       ELSE /\ bump_last.ptr
                 = RoundedUp(bump_last.before.next_free, bump_last.align)
            /\ bump.next_free = bump_last.ptr + bump_last.size
            /\ bump.allocation_count
                 = bump_last.before.allocation_count + 1
            /\ bump.heap_end = bump_last.before.heap_end
            /\ bump.heap_start = bump_last.before.heap_start

\* An over-aligned block was taken after next_free had to be rounded up.
C20_Witness ==
    /\ bump_last.op = "alloc" /\ bump_last.align = 32
    /\ bump_last.ptr # NULL
    /\ bump_last.ptr > bump_last.before.next_free
    /\ bump.allocation_count = 2

\* C21: between two calls of the bump allocator next_free goes down only in
\* a dealloc that brings allocation_count to zero, and then to the heap
\* start; a dealloc that leaves allocation_count above zero changes
\* allocation_count alone, whichever of the allocated blocks is freed.
C21_BumpMonotone ==
    /\ bump.next_free < bump_last.before.next_free
       => /\ bump_last.op = "dealloc"
          /\ bump.allocation_count = 0
          /\ bump.next_free = bump.heap_start
    /\ bump_last.op = "dealloc"
       => /\ bump.allocation_count = bump_last.before.allocation_count - 1
          /\ bump.allocation_count = BagCardinality(live)
          /\ bump.heap_start = bump_last.before.heap_start
          /\ bump.heap_end = bump_last.before.heap_end
          /\ IF bump.allocation_count > 0
             THEN bump.next_free = bump_last.before.next_free
             ELSE bump.next_free = bump.heap_start

\* A block that is not the last one allocated was freed while two others
\* are still allocated.
C21_Witness ==
    /\ bump_last.op = "dealloc"
    /\ bump_last.ptr + bump_last.size < bump.next_free
    /\ \E a \in BagToSet(live) : a.ptr > bump_last.ptr
    /\ bump.allocation_count = 2
    /\ bump.next_free > bump.heap_start

\* The adjusted layout of a request.
Adjusted(l) == adjust_layout(l[1], l[2])

\* The node can hold the request: the aligned start lies inside the node and
\* the block ends at or before the end of the node.
CanHold(node, size, align) ==
    /\ align_up(start_addr(node), align) >= start_addr(node)
    /\ align_up(start_addr(node), align) + size <= end_addr(node)

\* What is left of the node after the block.
Leftover(node, size, align) ==
    end_addr(node) - (align_up(start_addr(node), align) + size)

\* The first node of the list, from the head, that can hold the request;
\* 0 when there is none.
FirstHolding(list, size, align) ==
    IF \A i \in 1..Len(list) : ~CanHold(list[i], size, align)
    THEN 0
    ELSE CHOOSE i \in 1..Len(list) :
            /\ CanHold(list[i], size, align)
            /\ \A j \in 1..(i - 1) : ~CanHold(list[j], size, align)

\* The list without its i-th node.
Without(list, i) == SubSeq(list, 1, i - 1) \o SubSeq(list, i + 1, Len(list))

\* The first node that can hold the request leaves a remainder too small for
\* a node.
SmallLeftover(list, l) ==
    /\ Adjusted(l).ok
    /\ FirstHolding(list, Adjusted(l).size, Adjusted(l).align) # 0
    /\ Leftover(list[FirstHolding(list, Adjusted(l).size, Adjusted(l).align)],
                Adjusted(l).size, Adjusted(l).align) \in 1..(NodeSize - 1)

\* C22: an alloc of the free-list allocator whose first holding node leaves
\* a remainder that is nonzero and smaller than a node still uses that node:
\* it returns the aligned start inside it and the node leaves the list with
\* nothing put back.
C22_ForfeitLeftover ==
    [][\A l \in Layouts :
         (LLAlloc(l) /\ SmallLeftover(head, l))
         => /\ last'.ptr
                 = align_up(start_addr(head[FirstHolding(head, Adjusted(l).size,
                                                         Adjusted(l).align)]),
                            Adjusted(l).align)
            /\ head' = Without(head, FirstHolding(head, Adjusted(l).size,
                                                  Adjusted(l).align))]_vars

\* What the code does with such a node: alloc_from_region rejects it, so it
\* stays in the list and the block comes from a later node or not at all.
SmallLeftoverSkipped ==
    [][\A l \in Layouts :
         (LLAlloc(l) /\ SmallLeftover(head, l))
         => /\ last'.ptr
                 # align_up(start_addr(head[FirstHolding(head, Adjusted(l).size,
                                                         Adjusted(l).align)]),
                            Adjusted(l).align)
            /\ \E j \in 1..Len(head') :
                  head'[j] = head[FirstHolding(head, Adjusted(l).size,
                                               Adjusted(l).align)]]_vars

\* The node is capable of satisfying the request: it can hold the block and
\* what is left after the block is nothing or room for a node.
Fits(node, size, align) ==
    /\ CanHold(node, size, align)
    /\ Leftover(node, size, align) \notin 1..(NodeSize - 1)

\* The first node of the list, from the head, that fits; 0 when none does.
FirstFitting(list, size, align) ==
    IF \A i \in 1..Len(list) : ~Fits(list[i], size, align)
    THEN 0
    ELSE CHOOSE i \in 1..Len(list) :
            /\ Fits(list[i], size, align)
            /\ \A j \in 1..(i - 1) : ~Fits(list[j], size, align)

\* The nodes of list before position k are in after, in the same order,
\* behind at most one new node.
PrefixKept(list, k, after) ==
    \E d \in {0, 1} :
       /\ Len(after) = Len(list) - 1 + d
       /\ \A j \in 1..(k - 1) : after[j + d] = list[j]

CutFrom(list, k, alloc_end, after) ==
    /\ end_addr(list[k]) - alloc_end >= NodeSize
       => after = <<[addr |-> alloc_end,
                     size |-> end_addr(list[k]) - alloc_end]>>
                  \o Without(list, k)
    /\ end_addr(list[k]) - alloc_end = 0
       => after = Without(list, k)

\* C24: a successful alloc of the free-list allocator removes the node it
\* chose; when the node ends a node size or more past the end of the block
\* exactly one node covering the rest becomes the new head, when it ends
\* with the block nothing is inserted, and all other nodes keep their
\* address, size and order.
C24_SplitEffect ==
    [][\A l \in FreeListLayouts :
         (FreeListAlloc(l) /\ last'.ptr # NULL)
         => /\ last'.panic = "none"
            /\ \E k \in 1..Len(head) :
                  /\ start_addr(head[k]) <= last'.ptr
                  /\ last'.ptr + Adjusted(l).size <= end_addr(head[k])
                  /\ CutFrom(head, k, last'.ptr + Adjusted(l).size, head')]_vars

\* A block took a whole node, nothing was inserted for it, and the other
\* nodes are still in the list.
C24_Witness ==
    /\ strategy = "LinkedList"
    /\ last.op = "alloc" /\ last.ptr # NULL
    /\ Len(head) >= 2
    /\ last.ptr + adjust_layout(last.size, last.align).size
         < heap_start + heap_size
    /\ \A j \in 1..Len(head) :
          start_addr(head[j])
            # last.ptr + adjust_layout(last.size, last.align).size

\* Two free nodes that lie end to start, each too small for a block of the
\* given size that the two together could hold.
ContiguousPair(list, i, j, size) ==
    /\ end_addr(list[i]) = start_addr(list[j])
    /\ size > list[i].size /\ size > list[j].size
    /\ size <= list[i].size + list[j].size

\* C25: dealloc(ptr, layout) of the free-list allocator puts exactly one
\* node covering [ptr, ptr + adjusted size) at the head of the list and
\* leaves every other node as it is, next to a free node or not; free nodes
\* are never merged, so a request larger than each of two contiguous free
\* nodes and not larger than their sum is not served from them.
C25_NoCoalescing ==
    [][/\ \A a \in BagToSet(live) :
            LLDealloc(a)
            => /\ last'.panic = "none"
               /\ head' = <<[addr |-> a.ptr,
                             size |-> adjust_layout(a.size, a.align).size]>>
                          \o head
       /\ \A l \in FreeListLayouts :
            (FreeListAlloc(l) /\ Adjusted(l).ok)
            => \A i, j \in 1..Len(head) :
                  ContiguousPair(head, i, j, Adjusted(l).size)
                  => /\ ~(/\ start_addr(head[i]) <= last'.ptr
                          /\ last'.ptr < end_addr(head[j]))
                     /\ \E m, n \in 1..Len(head') :
                           head'[m] = head[i] /\ head'[n] = head[j]]_vars

\* Two contiguous blocks have been freed, and the request made next, larger
\* than each and no larger than both, was refused or served from elsewhere:
\* both nodes are in the list as they were.
C25_Witness ==
    /\ strategy = "LinkedList"
    /\ last.op = "alloc"
    /\ adjust_layout(last.size, last.align).ok
    /\ \E i, j \in 1..Len(head) :
          /\ ContiguousPair(head, i, j,
                            adjust_layout(last.size, last.align).size)
          /\ ~(/\ start_addr(head[i]) <= last.ptr
               /\ last.ptr < end_addr(head[j]))

\* The ranges [a, b) and [c, d) have no byte in common.
Apart(a, b, c, d) == b <= c \/ d <= a

\* C26: in every state the free-list allocator reaches from init by alloc
\* and dealloc calls, every free node is at least a node in size, starts at
\* a multiple of the node's alignment and lies inside the heap window, and
\* the free nodes overlap neither each other nor a live allocation.
C26_FreeListInvariant ==
    (strategy = "LinkedList" /\ initialized)
    => /\ \A i \in 1..Len(head) :
             /\ head[i].size >= NodeSize
             /\ start_addr(head[i]) % NodeAlign = 0
             /\ heap_start <= start_addr(head[i])
             /\ end_addr(head[i]) <= heap_start + heap_size
       /\ \A i, j \in 1..Len(head) :
             i < j => Apart(start_addr(head[i]), end_addr(head[i]),
                            start_addr(head[j]), end_addr(head[j]))
       /\ \A i \in 1..Len(head) : \A a \in BagToSet(live) :
             Apart(start_addr(head[i]), end_addr(head[i]),
                   a.ptr, a.ptr + adjust_layout(a.size, a.align).size)

\* Two free nodes around two live allocations, after a dealloc.
C26_Witness ==
    /\ strategy = "LinkedList" /\ initialized /\ ~panicked
    /\ last.op = "dealloc"
    /\ Len(head) = 2
    /\ BagCardinality(live) = 2
    /\ \E a \in BagToSet(live) :
          end_addr(head[1]) <= a.ptr /\ a.ptr < start_addr(head[2])

\* The classes of the table that qualify for a layout on a heap of the given
\* capacity, by their index in the whole table.
Qualifying(cap, size, align) ==
    { i \in 1..FREE_LISTS_COUNT :
         /\ BLOCK_LAYOUTS[i].size < cap
         /\ size <= BLOCK_LAYOUTS[i].size
         /\ align <= BLOCK_LAYOUTS[i].align }

\* C27: free_list_index returns the index, in the whole table of classes, of
\* the smallest class that holds the layout's size and alignment among the
\* classes smaller than the capacity of the heap, and no class when none
\* qualifies (classes are numbered from 1 here and 0 is "none").
C27_ClassSelection ==
    fli.called
    => IF Qualifying(fli.heap_size, fli.size, fli.align) = {}
       THEN fli.index = 0
       ELSE /\ fli.index \in Qualifying(fli.heap_size, fli.size, fli.align)
            /\ \A j \in Qualifying(fli.heap_size, fli.size, fli.align) :
                  BLOCK_LAYOUTS[fli.index].size <= BLOCK_LAYOUTS[j].size

\* A layout that only the class of the alignment holds was selected on a
\* heap whose capacity rules out the larger classes.
C27_Witness ==
    /\ fli.called
    /\ fli.size = 9 /\ fli.align = 64
    /\ fli.heap_size = 65
    /\ fli.index = 4

\* The class of a layout on the installed heap: the smallest qualifying
\* class, 0 when there is none.
ClassOf(size, align) ==
    IF Qualifying(Heap_size(fallback_allocator), size, align) = {}
    THEN 0
    ELSE CHOOSE i \in Qualifying(Heap_size(fallback_allocator), size, align) :
            \A j \in Qualifying(Heap_size(fallback_allocator), size, align) :
               i <= j

\* p is the start of a block of class i: aligned to the class, with the
\* size of the class inside the heap window.
ClassBlock(p, i) ==
    /\ p % BLOCK_LAYOUTS[i].align = 0
    /\ heap_start <= p
    /\ p + BLOCK_LAYOUTS[i].size <= heap_start + heap_size

\* The blocks in the class lists and the block the last alloc returned for
\* a class are blocks of their class; a block taken from the fallback was
\* requested with exactly the class's size and alignment.
ClassBlocksUniform ==
    strategy = "FixedSizeBlock"
    => /\ \A i \in 1..FREE_LISTS_COUNT :
             \A k \in 1..Len(free_list_heads[i]) :
                /\ ClassBlock(free_list_heads[i][k], i)
                /\ \A n \in 1..Len(fallback_allocator.list) :
                      Apart(free_list_heads[i][k],
                            free_list_heads[i][k] + BLOCK_LAYOUTS[i].size,
                            start_addr(fallback_allocator.list[n]),
                            end_addr(fallback_allocator.list[n]))
       /\ (/\ last.op = "alloc" /\ last.ptr # NULL
           /\ ClassOf(last.size, last.align) # 0)
          => /\ ClassBlock(last.ptr, ClassOf(last.size, last.align))
             /\ last.via \in {"class_list", "fallback"}
             /\ last.via = "fallback"
                => /\ last.fsize
                        = BLOCK_LAYOUTS[ClassOf(last.size, last.align)].size
                   /\ last.falign
                        = BLOCK_LAYOUTS[ClassOf(last.size, last.align)].align

\* An alloc whose class list is not empty pops the head of the list and
\* leaves the fallback arena alone.
PopsClassList ==
    \A l \in FixedSizeLayouts :
       (/\ FSBAlloc(l)
        /\ ClassOf(l[1], l[2]) # 0
        /\ free_list_heads[ClassOf(l[1], l[2])] # <<>>)
       => /\ last'.ptr = Head(free_list_heads[ClassOf(l[1], l[2])])
          /\ last'.via = "class_list"
          /\ free_list_heads'
               = [free_list_heads EXCEPT ![ClassOf(l[1], l[2])] = Tail(@)]
          /\ fallback_allocator' = fallback_allocator

\* C28: in every reachable state of the fixed-size-block allocator every
\* block in the list of class i, and every block alloc returns for class i,
\* popped or freshly taken from the fallback arena, has the size of class i
\* and is aligned to its alignment; an alloc that finds the list of its
\* class non-empty pops the head and does not call the fallback arena.
C28_UniformBlocks == [](ClassBlocksUniform) /\ [][PopsClassList]_vars

\* A block was popped from a class list that still holds another block.
C28_Witness ==
    /\ strategy = "FixedSizeBlock"
    /\ last.op = "alloc" /\ last.via = "class_list" /\ last.ptr # NULL
    /\ ClassOf(last.size, last.align) # 0
    /\ free_list_heads[ClassOf(last.size, last.align)] # <<>>

\* C29: the capacity that selects the class does not change after init, so
\* dealloc(ptr, layout) with a non-null ptr selects the class alloc selected
\* for the layout; when there is one, ptr becomes the head of the list of
\* that class in front of the old head, the other lists and the fallback
\* arena are unchanged, and the block is not handed to the fallback arena.
C29_DeallocToClass ==
    [][/\ initialized
          => Heap_size(fallback_allocator') = Heap_size(fallback_allocator)
       /\ \A a \in BagToSet(live) :
            (FSBDealloc(a) /\ ClassOf(a.size, a.align) # 0)
            => /\ last'.panic = "none"
               /\ last'.via = "class_list"
               /\ free_list_heads'
                    = [free_list_heads EXCEPT
                         ![ClassOf(a.size, a.align)] = <<a.ptr>> \o @]
               /\ fallback_allocator' = fallback_allocator]_vars

\* A block was freed into a class list that already held one: it is the new
\* head and the old head comes after it.
C29_Witness ==
    /\ strategy = "FixedSizeBlock"
    /\ last.op = "dealloc" /\ last.via = "class_list" /\ last.ptr # NULL
    /\ ClassOf(last.size, last.align) # 0
    /\ Len(free_list_heads[ClassOf(last.size, last.align)]) = 2
    /\ Head(free_list_heads[ClassOf(last.size, last.align)]) = last.ptr

\* alloc_start + size does not fit the machine word for this node.
Overflows(node, size, align) ==
    align_up(start_addr(node), align) + size > USIZE_MAX

\* C30: with addresses as machine words, a node for which alloc_start + size
\* overflows is passed over like any node that does not fit: it stays in the
\* list, the scan goes on to the next node, the call does not panic, and it
\* returns null exactly when no other node fits.
C30_OverflowIsNonFit ==
    [][\A l \in FreeListLayouts :
         (/\ FreeListAlloc(l)
          /\ Adjusted(l).ok
          /\ \E i \in 1..Len(head) :
                Overflows(head[i], Adjusted(l).size, Adjusted(l).align))
         => /\ last'.panic = "none" /\ ~panicked'
            /\ \A i \in 1..Len(head) :
                  Overflows(head[i], Adjusted(l).size, Adjusted(l).align)
                  => \E j \in 1..Len(head') : head'[j] = head[i]
            /\ last'.ptr = NULL
               <=> \A i \in 1..Len(head) :
                      ~Fits(head[i], Adjusted(l).size, Adjusted(l).align)]_vars

\* A request whose end overflows for each of the three nodes of the list
\* came back null, without a panic.
C30_Witness ==
    /\ strategy = "LinkedList" /\ initialized
    /\ last.op = "alloc" /\ last.ptr = NULL /\ last.panic = "none"
    /\ ~panicked
    /\ Len(head) = 3
    /\ \A i \in 1..Len(head) :
          Overflows(head[i], adjust_layout(last.size, last.align).size,
                    adjust_layout(last.size, last.align).align)

\* The addresses in a class list.
InList(chain) == { chain[k] : k \in 1..Len(chain) }

RECURSIVE ClassBytes(_, _)
\* The bytes held in the lists of the classes 1..i.
ClassBytes(heads, i) ==
    IF i = 0 THEN 0
    ELSE Len(heads[i]) * BLOCK_LAYOUTS[i].size + ClassBytes(heads, i - 1)

\* C31: a block freed into the list of a class never goes back to the
\* fallback arena and leaves the list only as the result of an alloc that
\* selects that class; so an alloc can return null while the lists of the
\* other classes hold free blocks of more bytes than it asked for.
C31_ClassBlocksStay ==
    [][\A i \in 1..FREE_LISTS_COUNT :
         \A p \in InList(free_list_heads[i]) :
            /\ \/ p \in InList(free_list_heads'[i])
               \/ /\ last'.op = "alloc" /\ last'.ptr = p
                  /\ last'.via = "class_list"
                  /\ ClassOf(last'.size, last'.align) = i
            /\ \A j \in 1..FREE_LISTS_COUNT :
                  j # i => p \notin InList(free_list_heads'[j])
            /\ \A n \in 1..Len(fallback_allocator'.list) :
                  Apart(p, p + BLOCK_LAYOUTS[i].size,
                        start_addr(fallback_allocator'.list[n]),
                        end_addr(fallback_allocator'.list[n]))]_vars

\* An alloc for one class came back null although the list of another
\* class holds free blocks of more bytes than the request.
C31_Witness ==
    /\ strategy = "FixedSizeBlock" /\ initialized
    /\ last.op = "alloc" /\ last.ptr = NULL /\ last.panic = "none"
    /\ ClassOf(last.size, last.align) # 0
    /\ free_list_heads[ClassOf(last.size, last.align)] = <<>>
    /\ ClassBytes(free_list_heads, FREE_LISTS_COUNT) > last.size
    /\ ClassBytes(free_list_heads, FREE_LISTS_COUNT)
         > BLOCK_LAYOUTS[ClassOf(last.size, last.align)].size

RECURSIVE FreeBytes(_, _)
\* The sizes of the first i free nodes, added up.
FreeBytes(list, i) ==
    IF i = 0 THEN 0 ELSE list[i].size + FreeBytes(list, i - 1)

RECURSIVE LiveBytes(_)
\* The adjusted sizes of the live allocations in the set, added up.
LiveBytes(allocs) ==
    IF allocs = {} THEN 0
    ELSE adjust_layout((CHOOSE a \in allocs : TRUE).size,
                       (CHOOSE a \in allocs : TRUE).align).size
         + LiveBytes(allocs \ {CHOOSE a \in allocs : TRUE})

\* The bytes of the heap that are in a free node or in a live allocation.
Accounted(list, allocs) ==
    FreeBytes(list, Len(list)) + LiveBytes(BagToSet(allocs))

\* C32: when the alignment puts alloc_start past the start of the chosen
\* node, the bytes [node.start, alloc_start) leave the free list with the
\* node and are in no node afterwards; the dealloc of a block puts back its
\* own bytes and no more; so the sizes of the free nodes and of the live
\* allocations together never exceed the heap size and never grow.
C32_PaddingLost ==
    [][initialized
       => /\ Accounted(head', live') <= Accounted(head, live)
          /\ Accounted(head', live') <= heap_size
          /\ \A l \in FreeListLayouts :
                (FreeListAlloc(l) /\ last'.ptr # NULL)
                => \E k \in 1..Len(head) :
                      /\ start_addr(head[k]) <= last'.ptr
                      /\ last'.ptr < end_addr(head[k])
                      /\ Accounted(head', live')
                           = Accounted(head, live)
                             - (last'.ptr - start_addr(head[k]))
                      /\ \A n \in 1..Len(head') :
                            Apart(start_addr(head'[n]), end_addr(head'[n]),
                                  start_addr(head[k]), last'.ptr)
          /\ \A a \in BagToSet(live) :
                LLDealloc(a)
                => Accounted(head', live') = Accounted(head, live)]_vars

\* A block that was aligned past the start of its node has been freed
\* again: nothing is allocated and the free nodes add up to less than the
\* heap.
C32_Witness ==
    /\ strategy = "LinkedList" /\ initialized /\ ~panicked
    /\ last.op = "dealloc" /\ last.align = 32
    /\ live = EmptyBag
    /\ Accounted(head, live) < heap_size

=============================================================================
